---- MODULE Spec2Model ----
(***************************************************************************)
(* A model of avmnif-rs: the tagged-term codec of src/term.rs (machine     *)
(* words, Term::from_value / Term::to_value) and the atom directory of     *)
(* src/testing/mocks.rs (MockAtomTable).                                   *)
(*                                                                         *)
(* Machine words are wider than TLC's integers, so a word (usize) is a     *)
(* little-endian sequence of 16-bit limbs: 2 limbs on a 32-bit target, 4   *)
(* on a 64-bit one.  i32 values and the u32 values that occur are plain    *)
(* integers.                                                               *)
(***************************************************************************)
EXTENDS Integers, Sequences, FiniteSets, TLC

VARIABLES
    wordBits,       \* width of usize on the target: 32 or 64
    heap,           \* host memory: address word -> word stored there
    src,            \* the codec's input: a TermValue or a raw word
    term,           \* NifResult<Term> held by the caller
    decoded,        \* result of Term::to_value
    cpc,            \* position of the codec caller
    atoms,          \* MockAtomTable.atoms: name -> id
    reverse_atoms,  \* MockAtomTable.reverse_atoms: id -> name
    next_id,        \* MockAtomTable.next_id
    lastCall,       \* the directory call that ran last and its result
    returned,       \* history: <<name, id>> pairs ensure has returned since the last clear
    callers,        \* concurrent callers of ensure_atom_str: position and locals of each
    call,           \* a call of a function on values: the function and its arguments
    result,         \* what that call returned
    cache,          \* atoms::*_ATOM: the cached index of each well-known atom, 0 when unset
    port,           \* a GenericPortData and what its handler has been handed
    manager         \* a ContextManager and the contexts destroyed so far

codecVars == <<wordBits, heap, src, term, decoded, cpc>>
dirVars == <<atoms, reverse_atoms, next_id, lastCall, returned>>
auxVars == <<callers, call, result>>
sysVars == <<cache, port, manager>>
vars == <<codecVars, dirVars, auxVars, sysVars>>

---------------------------------------------------------------------------
(* Bounds of the model *)

\* integers within IntSpread of each interesting i32 are encoded
IntSpread == 2
\* tuples, binaries and maps in host memory have at most MaxArity elements
MaxArity == 2
\* atom ids 0..MaxAtomSample are encoded (besides the large ones)
MaxAtomSample == 5

---------------------------------------------------------------------------
(* Machine words *)

LimbBase == 2^16
Pow2(n) == 2^n

RECURSIVE BitAnd(_, _)
BitAnd(a, b) ==
    IF a = 0 \/ b = 0 THEN 0
    ELSE (IF a % 2 = 1 /\ b % 2 = 1 THEN 1 ELSE 0) + 2 * BitAnd(a \div 2, b \div 2)

RECURSIVE BitOr(_, _)
BitOr(a, b) ==
    IF a = 0 THEN b
    ELSE IF b = 0 THEN a
    ELSE (IF a % 2 = 1 \/ b % 2 = 1 THEN 1 ELSE 0) + 2 * BitOr(a \div 2, b \div 2)

WordLimbs(wb) == wb \div 16

\* `n as usize` for a u32 n (zero-extended)
UsizeFromU32(n, wb) ==
    [k \in 1..WordLimbs(wb) |->
        IF k = 1 THEN n % LimbBase
        ELSE IF k = 2 THEN n \div LimbBase
        ELSE 0]

\* `v as usize` for an i32 v (sign-extended two's complement)
UsizeFromI32(v, wb) ==
    [k \in 1..WordLimbs(wb) |->
        IF k = 1 THEN v % LimbBase
        ELSE IF k = 2 THEN (v \div LimbBase) % LimbBase
        ELSE IF v < 0 THEN LimbBase - 1 ELSE 0]

\* `w << n` on usize, 0 < n < 16: the bits shifted out at the top are lost
Shl(w, n) ==
    [k \in DOMAIN w |->
        ((w[k] * Pow2(n)) % LimbBase)
        + (IF k > 1 THEN w[k - 1] \div Pow2(16 - n) ELSE 0)]

\* `w >> n` on usize, 0 < n < 16 (logical)
Shr(w, n) ==
    [k \in DOMAIN w |->
        (w[k] \div Pow2(n))
        + (IF k < Len(w) THEN (w[k + 1] % Pow2(n)) * Pow2(16 - n) ELSE 0)]

\* `w | c` for a constant c < 2^16
OrConst(w, c) == [w EXCEPT ![1] = BitOr(w[1], c)]

\* `w & c` for a constant c < 2^16, as a number
AndConst(w, c) == BitAnd(w[1], c)

\* `w & !c` for a constant c < 2^16
AndNotConst(w, c) == [w EXCEPT ![1] = w[1] - BitAnd(w[1], c)]

\* `w as i32`: the low 32 bits, read as two's complement
AsI32(w) ==
    IF w[2] >= LimbBase \div 2
    THEN (w[2] - LimbBase) * LimbBase + w[1]
    ELSE w[2] * LimbBase + w[1]

\* `w as u32`: the low 32 bits (the model only meets values below 2^31)
AsU32(w) == w[2] * LimbBase + w[1]

\* a usize as a number, for the small counts (arity, size) of the model
AsCount(w) == w[2] * LimbBase + w[1]

IsNullPtr(w) == \A k \in DOMAIN w : w[k] = 0

RECURSIVE AddCarry(_, _, _)
AddCarry(w, k, c) ==
    IF k > Len(w) \/ c = 0 THEN w
    ELSE LET s == w[k] + c
         IN AddCarry([w EXCEPT ![k] = s % LimbBase], k + 1, s \div LimbBase)

\* `ptr.add(n)` on a *const usize: n words further
PtrAdd(p, n) == AddCarry(p, 1, n * (Len(p) * 2))

---------------------------------------------------------------------------
(* src/term.rs: tag constants of impl Term *)

TERM_PRIMARY_MASK == 3
TERM_PRIMARY_IMMED == 3
TERM_PRIMARY_LIST == 1
TERM_PRIMARY_BOXED == 2
TERM_IMMED_TAG_MASK == 15
TERM_INTEGER_TAG == 15
TERM_ATOM_TAG == 11
TERM_PID_TAG == 3
TERM_PORT_TAG == 7
TERM_NIL == 59
TERM_BOXED_TAG_MASK == 63
TERM_BOXED_TUPLE == 0
TERM_BOXED_POSITIVE_INTEGER == 8
TERM_BOXED_REF == 16
TERM_BOXED_FUN == 24
TERM_BOXED_FLOAT == 32
TERM_BOXED_REFC_BINARY == 40
TERM_BOXED_HEAP_BINARY == 48
TERM_BOXED_SUB_BINARY == 56
TERM_BOXED_MAP == 64
TERM_BOXED_RESOURCE == 72

(* src/term.rs: enum TermValue *)

SmallInt(i) == [tag |-> "SmallInt", i |-> i]
Atom(idx) == [tag |-> "Atom", idx |-> idx]
Nil == [tag |-> "Nil"]
Pid(id) == [tag |-> "Pid", id |-> id]
Port(id) == [tag |-> "Port", id |-> id]
Reference(id) == [tag |-> "Reference", id |-> id]
Tuple(elements) == [tag |-> "Tuple", elements |-> elements]
List(head, tail) == [tag |-> "List", head |-> head, tail |-> tail]
Map(pairs) == [tag |-> "Map", pairs |-> pairs]
Binary(data) == [tag |-> "Binary", data |-> data]
Function(m, f, a) == [tag |-> "Function", module |-> m, function |-> f, arity |-> a]
Resource(type_name, ptr) == [tag |-> "Resource", type_name |-> type_name, ptr |-> ptr]
Float(x) == [tag |-> "Float", x |-> x]
Invalid == [tag |-> "Invalid"]

(* NifResult<T>, and the third outcome a build can produce where the code  *)
(* reads memory it may not read: the read faults and the call never        *)
(* returns.                                                                *)
Ok(v) == [k |-> "Ok", v |-> v]
Err(e) == [k |-> "Err", e |-> e]
Fault == [k |-> "Fault"]

\* NifError
BadArg == "BadArg"
Other(msg) == <<"Other", msg>>

(* `unsafe { *ptr }`: a mapped address yields its word; any other address  *)
(* (null included) is undefined behaviour, whose outcome ub is either a    *)
(* fault or some word.                                                     *)
Load(mem, addr, ub) ==
    IF addr \in DOMAIN mem THEN [fault |-> FALSE, w |-> mem[addr]] ELSE ub

---------------------------------------------------------------------------
(* src/term.rs: decoding *)

\* Term::decode_type; "Fault" when the header read faults
decode_type(w, mem, ub) ==
    IF w = UsizeFromU32(TERM_NIL, Len(w) * 16) THEN "Nil"
    ELSE LET primary == AndConst(w, TERM_PRIMARY_MASK) IN
        IF primary = TERM_PRIMARY_IMMED THEN
            LET immed == AndConst(w, TERM_IMMED_TAG_MASK) IN
            IF immed = TERM_INTEGER_TAG THEN "SmallInt"
            ELSE IF immed = TERM_ATOM_TAG THEN "Atom"
            ELSE IF immed = TERM_PID_TAG THEN "Pid"
            ELSE IF immed = TERM_PORT_TAG THEN "Port"
            ELSE "Invalid"
        ELSE IF primary = TERM_PRIMARY_LIST THEN "List"
        ELSE IF primary = TERM_PRIMARY_BOXED THEN
            LET boxed_ptr == AndNotConst(w, TERM_PRIMARY_MASK) IN
            IF IsNullPtr(boxed_ptr) THEN "Invalid"
            ELSE LET header == Load(mem, boxed_ptr, ub) IN
                IF header.fault THEN "Fault"
                ELSE LET subtag == AndConst(header.w, TERM_BOXED_TAG_MASK) IN
                    IF subtag = TERM_BOXED_TUPLE THEN "Tuple"
                    ELSE IF subtag = TERM_BOXED_POSITIVE_INTEGER THEN "SmallInt"
                    ELSE IF subtag = TERM_BOXED_REF THEN "Reference"
                    ELSE IF subtag = TERM_BOXED_FUN THEN "Function"
                    ELSE IF subtag = TERM_BOXED_FLOAT THEN "Float"
                    ELSE IF subtag \in {TERM_BOXED_REFC_BINARY, TERM_BOXED_HEAP_BINARY,
                                        TERM_BOXED_SUB_BINARY} THEN "Binary"
                    ELSE IF subtag = TERM_BOXED_MAP THEN "Map"
                    ELSE IF subtag = TERM_BOXED_RESOURCE THEN "Resource"
                    ELSE "Invalid"
        ELSE "Invalid"

\* the mutant of extract_small_int: the word shifted before it is cast,
\* (self.0 >> 4) as i32, which drops the sign on a 32-bit word
extract_small_int_logical(w, mem, ub) ==
    LET ty == decode_type(w, mem, ub) IN
    IF ty = "Fault" THEN Fault
    ELSE IF ty = "SmallInt" THEN Ok(AsI32(Shr(w, 4)))
    ELSE Err(BadArg)

\* Term::extract_small_int: (self.0 & !0xF) as i32 >> 4, an arithmetic shift
extract_small_int(w, mem, ub) ==
    LET ty == decode_type(w, mem, ub) IN
    IF ty = "Fault" THEN Fault
    ELSE IF ty = "SmallInt" THEN Ok(AsI32(AndNotConst(w, 15)) \div 16)
    ELSE Err(BadArg)

\* Term::extract_atom_index: (self.0 >> 4) as u32
extract_atom_index(w, mem, ub) ==
    LET ty == decode_type(w, mem, ub) IN
    IF ty = "Fault" THEN Fault
    ELSE IF ty = "Atom" THEN Ok(AsU32(Shr(w, 4)))
    ELSE Err(BadArg)

\* Term::extract_tuple_arity: header >> 6
extract_tuple_arity(w, mem, ub) ==
    LET ty == decode_type(w, mem, ub) IN
    IF ty = "Fault" THEN Fault
    ELSE IF ty = "Tuple" THEN
        LET header == Load(mem, AndNotConst(w, TERM_PRIMARY_MASK), ub) IN
        IF header.fault THEN Fault ELSE Ok(AsCount(Shr(header.w, 6)))
    ELSE Err(BadArg)

\* Term::extract_tuple_element
extract_tuple_element(w, index, mem, ub) ==
    LET arity == extract_tuple_arity(w, mem, ub) IN
    IF arity.k # "Ok" THEN arity
    ELSE IF index >= arity.v THEN Err(BadArg)
    ELSE LET element == Load(mem, PtrAdd(AndNotConst(w, TERM_PRIMARY_MASK), 1 + index), ub) IN
        IF element.fault THEN Fault ELSE Ok(element.w)

\* Term::extract_list_head: the list pointer is read without a null check
extract_list_head(w, mem, ub) ==
    LET ty == decode_type(w, mem, ub) IN
    IF ty = "Fault" THEN Fault
    ELSE IF ty = "List" THEN
        LET head == Load(mem, AndNotConst(w, TERM_PRIMARY_MASK), ub) IN
        IF head.fault THEN Fault ELSE Ok(head.w)
    ELSE Err(BadArg)

\* Term::extract_list_tail
extract_list_tail(w, mem, ub) ==
    LET ty == decode_type(w, mem, ub) IN
    IF ty = "Fault" THEN Fault
    ELSE IF ty = "List" THEN
        LET tail == Load(mem, PtrAdd(AndNotConst(w, TERM_PRIMARY_MASK), 1), ub) IN
        IF tail.fault THEN Fault ELSE Ok(tail.w)
    ELSE Err(BadArg)

\* byte j of the bytes stored from address p on (little-endian target)
LoadByte(mem, p, j, ub) ==
    LET bytesPerWord == Len(p) * 2
        cell == Load(mem, PtrAdd(p, j \div bytesPerWord), ub)
        b == j % bytesPerWord
    IN  IF cell.fault THEN cell
        ELSE LET limb == cell.w[(b \div 2) + 1]
             IN [fault |-> FALSE, w |-> IF b % 2 = 0 THEN limb % 256 ELSE limb \div 256]

RECURSIVE LoadBytes(_, _, _, _, _, _)
LoadBytes(mem, p, size, ub, j, acc) ==
    IF j >= size THEN Ok(acc)
    ELSE LET byte == LoadByte(mem, p, j, ub) IN
        IF byte.fault THEN Fault
        ELSE LoadBytes(mem, p, size, ub, j + 1, Append(acc, byte.w))

\* Term::extract_binary_data: size word at ptr.add(1), bytes from ptr.add(2)
extract_binary_data(w, mem, ub) ==
    LET ty == decode_type(w, mem, ub) IN
    IF ty = "Fault" THEN Fault
    ELSE IF ty = "Binary" THEN
        LET boxed_ptr == AndNotConst(w, TERM_PRIMARY_MASK)
            size == Load(mem, PtrAdd(boxed_ptr, 1), ub)
        IN  IF size.fault THEN Fault
            ELSE LoadBytes(mem, PtrAdd(boxed_ptr, 2), AsCount(size.w), ub, 0, <<>>)
    ELSE Err(BadArg)

\* Term::extract_map_size
extract_map_size(w, mem, ub) ==
    LET ty == decode_type(w, mem, ub) IN
    IF ty = "Fault" THEN Fault
    ELSE IF ty = "Map" THEN
        LET size == Load(mem, PtrAdd(AndNotConst(w, TERM_PRIMARY_MASK), 1), ub) IN
        IF size.fault THEN Fault ELSE Ok(AsCount(size.w))
    ELSE Err(BadArg)

\* Term::extract_map_key and extract_map_value: placeholders
extract_map_key(w, index) == Err(Other("map traversal not implemented"))
extract_map_value(w, index) == Err(Other("map traversal not implemented"))

\* Term::extract_resource_ptr
extract_resource_ptr(w, mem, ub) ==
    LET ty == decode_type(w, mem, ub) IN
    IF ty = "Fault" THEN Fault
    ELSE IF ty = "Resource" THEN Ok(AndNotConst(w, TERM_PRIMARY_MASK))
    ELSE Err(BadArg)

RECURSIVE to_value(_, _, _)
RECURSIVE TupleElements(_, _, _, _, _, _)

\* the loop of the Tuple arm of to_value: the first failure ends it
TupleElements(w, mem, ub, i, arity, elements) ==
    IF i >= arity THEN Ok(elements)
    ELSE LET elem_term == extract_tuple_element(w, i, mem, ub) IN
        IF elem_term.k # "Ok" THEN elem_term
        ELSE LET elem == to_value(elem_term.v, mem, ub) IN
            IF elem.k # "Ok" THEN elem
            ELSE TupleElements(w, mem, ub, i + 1, arity, Append(elements, elem.v))

\* Term::to_value
to_value(w, mem, ub) ==
    LET ty == decode_type(w, mem, ub) IN
    IF ty = "Fault" THEN Fault
    ELSE IF ty = "SmallInt" THEN
        LET val == extract_small_int(w, mem, ub) IN
        IF val.k # "Ok" THEN val ELSE Ok(SmallInt(val.v))
    ELSE IF ty = "Atom" THEN
        LET index == extract_atom_index(w, mem, ub) IN
        IF index.k # "Ok" THEN index ELSE Ok(Atom(index.v))
    ELSE IF ty = "Nil" THEN Ok(Nil)
    ELSE IF ty = "Tuple" THEN
        LET arity == extract_tuple_arity(w, mem, ub) IN
        IF arity.k # "Ok" THEN arity
        ELSE LET elements == TupleElements(w, mem, ub, 0, arity.v, <<>>) IN
            IF elements.k # "Ok" THEN elements ELSE Ok(Tuple(elements.v))
    ELSE IF ty = "List" THEN
        LET head_term == extract_list_head(w, mem, ub) IN
        IF head_term.k # "Ok" THEN head_term
        ELSE LET tail_term == extract_list_tail(w, mem, ub) IN
            IF tail_term.k # "Ok" THEN tail_term
            ELSE LET head == to_value(head_term.v, mem, ub) IN
                IF head.k # "Ok" THEN head
                ELSE LET tail == to_value(tail_term.v, mem, ub) IN
                    IF tail.k # "Ok" THEN tail
                    ELSE Ok(List(head.v, tail.v))
    ELSE IF ty = "Binary" THEN
        LET data == extract_binary_data(w, mem, ub) IN
        IF data.k # "Ok" THEN data ELSE Ok(Binary(data.v))
    ELSE IF ty = "Map" THEN
        LET size == extract_map_size(w, mem, ub) IN
        IF size.k # "Ok" THEN size
        ELSE IF size.v = 0 THEN Ok(Map(<<>>))
        ELSE extract_map_key(w, 0)
    ELSE IF ty = "Resource" THEN
        LET ptr == extract_resource_ptr(w, mem, ub) IN
        IF ptr.k # "Ok" THEN ptr ELSE Ok(Resource("unknown", ptr.v))
    ELSE IF ty = "Pid" THEN Ok(Pid(AsU32(Shr(w, 4))))
    ELSE IF ty = "Port" THEN Ok(Port(AsU32(Shr(w, 4))))
    ELSE Ok(Invalid)

---------------------------------------------------------------------------
(* src/term.rs: encoding *)

\* the mutant of encode_small_int: the upper limit taken inclusive
encode_small_int_inclusive(value, wb) ==
    IF value >= -(2^27) /\ value <= 2^27
    THEN Ok(OrConst(Shl(UsizeFromI32(value, wb), 4), TERM_INTEGER_TAG))
    ELSE Err(Other("integer too large for small int"))

\* Term::encode_small_int
encode_small_int(value, wb) ==
    IF value >= -(2^27) /\ value < 2^27
    THEN Ok(OrConst(Shl(UsizeFromI32(value, wb), 4), TERM_INTEGER_TAG))
    ELSE Err(Other("integer too large for small int"))

\* Term::encode_atom
encode_atom(index, wb) ==
    Ok(OrConst(Shl(UsizeFromU32(index, wb), 4), TERM_ATOM_TAG))

\* Term::encode_nil
encode_nil(wb) == UsizeFromU32(TERM_NIL, wb)

\* Term::encode_tuple, encode_list, encode_binary, encode_map: placeholders
\* that allocate nothing and write nothing into the heap
encode_tuple(elements, wb) == Err(Other("tuple encoding not implemented"))
encode_list(head, tail, wb) == Err(Other("list encoding not implemented"))
encode_binary(data, wb) == Err(Other("binary encoding not implemented"))
encode_map(pairs, wb) == Err(Other("map encoding not implemented"))

\* collect::<Result<Vec<_>, _>>(): the first Err of the results, or all the values
Collect(results) ==
    IF \E i \in DOMAIN results : results[i].k # "Ok"
    THEN results[CHOOSE i \in DOMAIN results :
                    /\ results[i].k # "Ok"
                    /\ \A j \in DOMAIN results : results[j].k # "Ok" => i <= j]
    ELSE Ok([i \in DOMAIN results |-> results[i].v])

RECURSIVE from_value(_, _)
\* Term::from_value
from_value(value, wb) ==
    IF value.tag = "SmallInt" THEN encode_small_int(value.i, wb)
    ELSE IF value.tag = "Atom" THEN encode_atom(value.idx, wb)
    ELSE IF value.tag = "Nil" THEN Ok(encode_nil(wb))
    ELSE IF value.tag = "Tuple" THEN
        LET term_elements ==
                Collect([i \in DOMAIN value.elements |-> from_value(value.elements[i], wb)])
        IN  IF term_elements.k # "Ok" THEN term_elements
            ELSE encode_tuple(term_elements.v, wb)
    ELSE IF value.tag = "List" THEN
        LET head_term == from_value(value.head, wb) IN
        IF head_term.k # "Ok" THEN head_term
        ELSE LET tail_term == from_value(value.tail, wb) IN
            IF tail_term.k # "Ok" THEN tail_term
            ELSE encode_list(head_term.v, tail_term.v, wb)
    ELSE IF value.tag = "Binary" THEN encode_binary(value.data, wb)
    ELSE IF value.tag = "Map" THEN
        LET pair(i) ==
                LET k == from_value(value.pairs[i][1], wb) IN
                IF k.k # "Ok" THEN k
                ELSE LET v == from_value(value.pairs[i][2], wb) IN
                    IF v.k # "Ok" THEN v ELSE Ok(<<k.v, v.v>>)
            term_pairs == Collect([i \in DOMAIN value.pairs |-> pair(i)])
        IN  IF term_pairs.k # "Ok" THEN term_pairs
            ELSE encode_map(term_pairs.v, wb)
    ELSE Err(Other("unsupported term type for encoding"))

---------------------------------------------------------------------------
(* The codec's inputs: values to encode, and raw words with the host       *)
(* memory they point into.                                                 *)

MinI32 == -(2^30) - 2^30
MaxI32 == 2^30 + (2^30 - 1)

I32Samples ==
    {c + d : c \in {-(2^27), 0, 2^27}, d \in (-IntSpread)..IntSpread}
    \cup {42, MinI32, MaxI32}

AtomSamples == (0..MaxAtomSample) \cup {2^28 - 1, 2^28, 2^28 + 3, MaxI32}

\* the elements of the compound values
SmallLeaves == {SmallInt(42), SmallInt(2^27), Atom(1), Nil}

LeafSamples ==
    {SmallInt(i) : i \in I32Samples} \cup {Atom(a) : a \in AtomSamples} \cup {Nil}

UnsupportedSamples ==
    {Invalid, Resource("unknown", <<0, 0>>), Pid(1), Port(1), Reference(1),
     Float("1.5"), Function(1, 2, 0)}

CompoundSamples ==
    {Tuple(es) : es \in UNION {[1..n -> SmallLeaves] : n \in 0..MaxArity}}
    \cup {List(h, t) : h \in SmallLeaves, t \in SmallLeaves \cup {List(SmallInt(42), Nil)}}
    \cup {Binary(<<>>), Binary(<<104, 105>>)}
    \cup {Map(<<>>)} \cup {Map(<< <<k, v>> >>) : k \in SmallLeaves, v \in SmallLeaves}

ValueSamples == LeafSamples \cup UnsupportedSamples \cup CompoundSamples

\* addresses of the objects in host memory (word aligned)
BoxAddr == 4 * 16
CellAddr == 8 * 16
Cell2Addr == 10 * 16

ImmWord(payload, tag, wb) == OrConst(Shl(UsizeFromI32(payload, wb), 4), tag)
PtrWord(addr, primary, wb) == OrConst(UsizeFromU32(addr, wb), primary)

\* memory holding the given <<address, word>> pairs
MemOf(cells, wb) ==
    [a \in {UsizeFromU32(c[1], wb) : c \in cells} |->
        (CHOOSE c \in cells : UsizeFromU32(c[1], wb) = a)[2]]

\* the cells of the objects at address addr whose words are ws
Cells(addr, ws, wb) == {<<addr + (i - 1) * (wb \div 8), ws[i]>> : i \in DOMAIN ws}

\* two list cells: [2] at CellAddr and [1 | [2]] at Cell2Addr
ListCells(wb) ==
    Cells(CellAddr, <<ImmWord(2, TERM_INTEGER_TAG, wb), encode_nil(wb)>>, wb)
    \cup Cells(Cell2Addr, <<ImmWord(1, TERM_INTEGER_TAG, wb),
                            PtrWord(CellAddr, TERM_PRIMARY_LIST, wb)>>, wb)

\* the element words of a boxed object
ElemWords(wb) ==
    {encode_nil(wb), ImmWord(-1, TERM_INTEGER_TAG, wb),
     PtrWord(CellAddr, TERM_PRIMARY_LIST, wb)}

IsBinarySubtag(subtag) ==
    subtag \in {TERM_BOXED_REFC_BINARY, TERM_BOXED_HEAP_BINARY, TERM_BOXED_SUB_BINARY}

\* the words after the header of a boxed object: for a binary the size and
\* the bytes "hi", otherwise MaxArity element words
Payloads(subtag, wb) ==
    IF IsBinarySubtag(subtag)
    THEN {<<UsizeFromU32(n, wb), UsizeFromU32(104 + 256 * 105, wb)>> : n \in 0..MaxArity}
    ELSE [1..MaxArity -> ElemWords(wb)]

\* a boxed object at BoxAddr: every 6-bit subtag, every arity up to MaxArity
BoxScenes(wb) ==
    {[mem |-> MemOf(ListCells(wb)
                    \cup Cells(BoxAddr, <<UsizeFromU32(arity * 64 + subtag, wb)>> \o pl, wb), wb),
      src |-> [kind |-> "word", w |-> PtrWord(BoxAddr, TERM_PRIMARY_BOXED, wb)]] :
        <<subtag, arity, pl>> \in
            UNION {{<<st, ar, q>> : ar \in 0..MaxArity, q \in Payloads(st, wb)} : st \in 0..63}}

\* immediates of every tag, the list cells, the null pointers and the word 0
RawWords(wb) ==
    {ImmWord(p, tag, wb) :
        p \in 0..MaxAtomSample,
        tag \in {TERM_INTEGER_TAG, TERM_ATOM_TAG, TERM_PID_TAG, TERM_PORT_TAG}}
    \cup {ImmWord(p, TERM_INTEGER_TAG, wb) : p \in {-(2^27), -1, 2^27 - 1}}
    \cup {PtrWord(CellAddr, TERM_PRIMARY_LIST, wb), PtrWord(Cell2Addr, TERM_PRIMARY_LIST, wb),
          PtrWord(0, TERM_PRIMARY_LIST, wb), PtrWord(0, TERM_PRIMARY_BOXED, wb),
          UsizeFromU32(0, wb)}

Scenes(wb) ==
    {[mem |-> MemOf(ListCells(wb), wb), src |-> [kind |-> "value", v |-> v]] :
        v \in ValueSamples}
    \cup {[mem |-> MemOf(ListCells(wb), wb), src |-> [kind |-> "word", w |-> w]] :
        w \in RawWords(wb)}
    \cup BoxScenes(wb)

\* what the read of an unmapped address can produce
UbOutcomes(wb) ==
    {[fault |-> TRUE],
     [fault |-> FALSE, w |-> encode_nil(wb)],
     [fault |-> FALSE, w |-> UsizeFromU32(0, wb)]}

NoResult == [k |-> "None"]

---------------------------------------------------------------------------
(* The codec as a state machine: a caller holding a value encodes it and   *)
(* decodes the word it got; a caller handed a word by the VM decodes it.   *)

CodecIdle ==
    /\ wordBits = 32
    /\ heap = <<>>
    /\ src = [kind |-> "none"]
    /\ term = NoResult
    /\ decoded = NoResult
    /\ cpc = "idle"

CodecInit ==
    /\ wordBits \in {32, 64}
    /\ \E s \in Scenes(wordBits) : heap = s.mem /\ src = s.src
    /\ term = IF src.kind = "word" THEN Ok(src.w) ELSE NoResult
    /\ cpc = IF src.kind = "word" THEN "have_term" ELSE "have_value"
    /\ decoded = NoResult

\* Term::from_value(value, heap)
FromValue ==
    /\ cpc = "have_value"
    /\ term' = from_value(src.v, wordBits)
    /\ cpc' = "have_term"
    /\ UNCHANGED <<wordBits, heap, src, decoded>>
    /\ UNCHANGED <<dirVars, auxVars, sysVars>>

\* term.to_value()
ToValue ==
    /\ cpc = "have_term"
    /\ term.k = "Ok"
    /\ \E ub \in UbOutcomes(wordBits) : decoded' = to_value(term.v, heap, ub)
    /\ cpc' = "decoded"
    /\ UNCHANGED <<wordBits, heap, src, term>>
    /\ UNCHANGED <<dirVars, auxVars, sysVars>>

---------------------------------------------------------------------------
(* src/testing/mocks.rs: MockAtomTable.  A table is the record of the      *)
(* three fields.  A name is written as a string, which stands for the      *)
(* bytes NameBytes gives it: two names are equal exactly when their bytes  *)
(* are.                                                                    *)

Rep(byte, n) == [i \in 1..n |-> byte]

\* the longest name ensure_atom_str accepts
MaxAtomLen == 255

\* the sample names the directory is called with and their bytes: "a", "ok",
\* "error", U+00E9, a name of exactly MaxAtomLen bytes and one a byte longer,
\* a lone 0xFF and a truncated two-byte sequence
NameBytes ==
    [a |-> <<97>>, ok |-> <<111, 107>>, error |-> <<101, 114, 114, 111, 114>>,
     e_acute |-> <<195, 169>>,
     a_max |-> Rep(97, MaxAtomLen), a_long |-> Rep(97, MaxAtomLen + 1),
     x_ff |-> <<255>>, a_xc3 |-> <<97, 195>>]

\* the names the tagged-map layer, TermValue::atom and the standard message
\* handler spell out in their code, and their bytes
LiteralBytes ==
    [type |-> <<116, 121, 112, 101>>,
     variant |-> <<118, 97, 114, 105, 97, 110, 116>>,
     value |-> <<118, 97, 108, 117, 101>>, i32 |-> <<105, 51, 50>>,
     string |-> <<115, 116, 114, 105, 110, 103>>,
     bool |-> <<98, 111, 111, 108>>,
     option |-> <<111, 112, 116, 105, 111, 110>>,
     some |-> <<115, 111, 109, 101>>, nil |-> <<110, 105, 108>>,
     true |-> <<116, 114, 117, 101>>, false |-> <<102, 97, 108, 115, 101>>,
     vec |-> <<118, 101, 99>>,
     elements |-> <<101, 108, 101, 109, 101, 110, 116, 115>>,
     test_user |-> <<116, 101, 115, 116, 95, 117, 115, 101, 114>>,
     id |-> <<105, 100>>, name |-> <<110, 97, 109, 101>>,
     email |-> <<101, 109, 97, 105, 108>>,
     active |-> <<97, 99, 116, 105, 118, 101>>,
     undefined |-> <<117, 110, 100, 101, 102, 105, 110, 101, 100>>,
     badarg |-> <<98, 97, 100, 97, 114, 103>>,
     start |-> <<115, 116, 97, 114, 116>>, stop |-> <<115, 116, 111, 112>>,
     status |-> <<115, 116, 97, 116, 117, 115>>]

\* every name of the model
AllNames == DOMAIN NameBytes \cup DOMAIN LiteralBytes

\* name.as_bytes()
Bytes(name) ==
    IF name \in DOMAIN NameBytes THEN NameBytes[name] ELSE LiteralBytes[name]

\* the length of the UTF-8 sequence a lead byte starts; 0 for a byte that starts none
Utf8SeqLen(c) ==
    IF c < 128 THEN 1
    ELSE IF c \in 194..223 THEN 2
    ELSE IF c \in 224..239 THEN 3
    ELSE IF c \in 240..244 THEN 4
    ELSE 0

IsUtf8Cont(c) == c \in 128..191

\* the second byte of a sequence: no overlong form, no surrogate, nothing above U+10FFFF
Utf8SecondOk(lead, c) ==
    IF lead = 224 THEN c \in 160..191
    ELSE IF lead = 237 THEN c \in 128..159
    ELSE IF lead = 240 THEN c \in 144..191
    ELSE IF lead = 244 THEN c \in 128..143
    ELSE c \in 128..191

\* core::str::from_utf8(b).is_ok(): every byte that is no continuation byte
\* starts a complete sequence, and every continuation byte belongs to one
IsUtf8(b) ==
    \A i \in 1..Len(b) :
        IF IsUtf8Cont(b[i])
        THEN \E d \in 1..3 :
                /\ i - d >= 1
                /\ ~IsUtf8Cont(b[i - d])
                /\ Utf8SeqLen(b[i - d]) > d
                /\ \A e \in 1..(d - 1) : IsUtf8Cont(b[i - e])
        ELSE /\ Utf8SeqLen(b[i]) >= 1
             /\ i + Utf8SeqLen(b[i]) - 1 <= Len(b)
             /\ \A d \in 1..(Utf8SeqLen(b[i]) - 1) : IsUtf8Cont(b[i + d])
             /\ Utf8SeqLen(b[i]) > 1 => Utf8SecondOk(b[i], b[i + 1])

\* which names are well-formed UTF-8
Utf8Names == {name \in AllNames : IsUtf8(Bytes(name))}

\* core::str::from_utf8(name): the name as a &str, or an error
from_utf8(name) == IF name \in Utf8Names THEN Ok(name) ELSE Err("Utf8Error")

\* the byte lengths of the names
NameLen == [name \in AllNames |-> Len(Bytes(name))]

\* name.len()
len(name) == NameLen[name]

\* BTreeMap::insert: a present key gets the new value
Insert(m, key, value) == (key :> value) @@ m

EmptyMap == <<>>

\* MockAtomTable::new_empty
new_empty == [atoms |-> EmptyMap, reverse_atoms |-> EmptyMap, next_id |-> 1]

\* the mutant of ensure_atom_str: next_id is read but not advanced
ensure_atom_str_no_increment(t, name) ==
    IF len(name) > MaxAtomLen THEN [t |-> t, r |-> Err("InvalidAtomData")]
    ELSE IF name \in DOMAIN t.atoms THEN [t |-> t, r |-> Ok(t.atoms[name])]
    ELSE LET new_id == t.next_id IN
        [t |-> [atoms |-> Insert(t.atoms, name, new_id),
                reverse_atoms |-> Insert(t.reverse_atoms, new_id, name),
                next_id |-> t.next_id],
         r |-> Ok(new_id)]

\* the mutant of ensure_atom_str: the reverse map is not filled
ensure_atom_str_no_reverse(t, name) ==
    IF len(name) > MaxAtomLen THEN [t |-> t, r |-> Err("InvalidAtomData")]
    ELSE IF name \in DOMAIN t.atoms THEN [t |-> t, r |-> Ok(t.atoms[name])]
    ELSE LET new_id == t.next_id IN
        [t |-> [atoms |-> Insert(t.atoms, name, new_id),
                reverse_atoms |-> t.reverse_atoms,
                next_id |-> new_id + 1],
         r |-> Ok(new_id)]

\* MockAtomTable::ensure_atom_str: the table after the call and the result
ensure_atom_str(t, name) ==
    IF len(name) > MaxAtomLen THEN [t |-> t, r |-> Err("InvalidAtomData")]
    ELSE IF name \in DOMAIN t.atoms THEN [t |-> t, r |-> Ok(t.atoms[name])]
    ELSE LET new_id == t.next_id IN
        [t |-> [atoms |-> Insert(t.atoms, name, new_id),
                reverse_atoms |-> Insert(t.reverse_atoms, new_id, name),
                next_id |-> new_id + 1],
         r |-> Ok(new_id)]

\* MockAtomTable::ensure_atom
ensure_atom(t, name) ==
    LET name_str == from_utf8(name) IN
    IF name_str.k # "Ok" THEN [t |-> t, r |-> Err("InvalidAtomData")]
    ELSE ensure_atom_str(t, name_str.v)

\* the mutant of find_atom: the lookup creates what it does not find
find_atom_creating(t, name) ==
    LET name_str == from_utf8(name) IN
    IF name_str.k # "Ok" THEN [t |-> t, r |-> Err("InvalidAtomData")]
    ELSE IF name_str.v \in DOMAIN t.atoms THEN [t |-> t, r |-> Ok(t.atoms[name_str.v])]
    ELSE [t |-> ensure_atom_str(t, name_str.v).t, r |-> Err("NotFound")]

\* MockAtomTable::find_atom: the table after the call (self.atoms is only
\* borrowed for reading) and the result
find_atom(t, name) ==
    LET name_str == from_utf8(name) IN
    IF name_str.k # "Ok" THEN [t |-> t, r |-> Err("InvalidAtomData")]
    ELSE IF name_str.v \in DOMAIN t.atoms THEN [t |-> t, r |-> Ok(t.atoms[name_str.v])]
    ELSE [t |-> t, r |-> Err("NotFound")]

\* Option<T>
Some(v) == [k |-> "Some", v |-> v]
None == [k |-> "None"]

\* BTreeMap::get
get(m, key) == IF key \in DOMAIN m THEN Some(m[key]) ELSE None

\* the order of byte strings: the first differing byte decides, and a proper
\* prefix is less
BytesLess(x, y) ==
    LET m == IF Len(x) < Len(y) THEN Len(x) ELSE Len(y) IN
    \/ \E k \in 1..m : x[k] < y[k] /\ \A j \in 1..(k - 1) : x[j] = y[j]
    \/ Len(x) < Len(y) /\ \A j \in 1..m : x[j] = y[j]

\* n1 < n2 for every two names, computed once
NameOrder == [n1 \in Utf8Names |-> [n2 \in Utf8Names |-> BytesLess(Bytes(n1), Bytes(n2))]]

\* String's Ord: n1 < n2
StrLess(n1, n2) == NameOrder[n1][n2]

\* the mutant of compare_atoms: the ids are compared instead of the names
compare_atoms_by_id(t, idx1, idx2) ==
    LET name1 == get(t.reverse_atoms, idx1)
        name2 == get(t.reverse_atoms, idx2) IN
    IF name1.k = "Some" /\ name2.k = "Some" THEN
        IF idx1 < idx2 THEN -1
        ELSE IF idx1 > idx2 THEN 1
        ELSE 0
    ELSE IF name1.k = "Some" THEN 1
    ELSE IF name2.k = "Some" THEN -1
    ELSE 0

\* the mutant of compare_atoms: an unknown id orders above a known one
compare_atoms_unknown_greater(t, idx1, idx2) ==
    LET name1 == get(t.reverse_atoms, idx1)
        name2 == get(t.reverse_atoms, idx2) IN
    IF name1.k = "Some" /\ name2.k = "Some" THEN
        IF StrLess(name1.v, name2.v) THEN -1
        ELSE IF StrLess(name2.v, name1.v) THEN 1
        ELSE 0
    ELSE IF name1.k = "Some" THEN -1
    ELSE IF name2.k = "Some" THEN 1
    ELSE 0

\* MockAtomTable::compare_atoms
compare_atoms(t, idx1, idx2) ==
    LET name1 == get(t.reverse_atoms, idx1)
        name2 == get(t.reverse_atoms, idx2) IN
    IF name1.k = "Some" /\ name2.k = "Some" THEN
        IF StrLess(name1.v, name2.v) THEN -1
        ELSE IF StrLess(name2.v, name1.v) THEN 1
        ELSE 0
    ELSE IF name1.k = "Some" THEN 1
    ELSE IF name2.k = "Some" THEN -1
    ELSE 0

\* AtomRef::new(data, index)
AtomRef(data, index) == [data |-> data, index |-> index]

\* MockAtomTable::get_atom_string
get_atom_string(t, idx) ==
    IF idx \in DOMAIN t.reverse_atoms
    THEN Ok(AtomRef(Bytes(t.reverse_atoms[idx]), idx))
    ELSE Err("NotFound")

\* MockAtomTable::get_atom_name
get_atom_name(t, idx) ==
    IF idx \in DOMAIN t.reverse_atoms THEN Some(t.reverse_atoms[idx]) ELSE None

\* MockAtomTable::count
count(t) == Cardinality(DOMAIN t.atoms)

\* the mutant of clear: next_id is not reset
clear_keeps_next_id(t) ==
    [atoms |-> EmptyMap, reverse_atoms |-> EmptyMap, next_id |-> t.next_id]

\* MockAtomTable::clear
clear(t) == [atoms |-> EmptyMap, reverse_atoms |-> EmptyMap, next_id |-> 1]

---------------------------------------------------------------------------
(* The names and ids the directory is called with *)

\* ids 0..MaxIdSample are looked up
MaxIdSample == 6

\* byte strings: the sample names
ByteNames == DOMAIN NameBytes

\* a &str is well-formed UTF-8
StrNames == ByteNames \cap Utf8Names

---------------------------------------------------------------------------
(* The directory as a state machine: one action per call on a table *)

table == [atoms |-> atoms, reverse_atoms |-> reverse_atoms, next_id |-> next_id]

Call(op, arg, res, pre) == [op |-> op, arg |-> arg, res |-> res, pre |-> pre]

DirInit ==
    /\ atoms = new_empty.atoms
    /\ reverse_atoms = new_empty.reverse_atoms
    /\ next_id = new_empty.next_id
    /\ lastCall = Call("new_empty", <<>>, NoResult, new_empty)
    /\ returned = {}

SetTable(t) ==
    /\ atoms' = t.atoms
    /\ reverse_atoms' = t.reverse_atoms
    /\ next_id' = t.next_id

Record(res, name) ==
    returned' = IF res.k = "Ok" THEN returned \cup {<<name, res.v>>} ELSE returned

EnsureAtom ==
    \E name \in ByteNames :
        LET out == ensure_atom(table, name) IN
        /\ SetTable(out.t)
        /\ lastCall' = Call("ensure_atom", name, out.r, table)
        /\ Record(out.r, name)
        /\ UNCHANGED <<codecVars, auxVars, sysVars>>

EnsureAtomStr ==
    \E name \in StrNames :
        LET out == ensure_atom_str(table, name) IN
        /\ SetTable(out.t)
        /\ lastCall' = Call("ensure_atom_str", name, out.r, table)
        /\ Record(out.r, name)
        /\ UNCHANGED <<codecVars, auxVars, sysVars>>

FindAtom ==
    \E name \in ByteNames :
        LET out == find_atom(table, name) IN
        /\ SetTable(out.t)
        /\ lastCall' = Call("find_atom", name, out.r, table)
        /\ UNCHANGED returned
        /\ UNCHANGED <<codecVars, auxVars, sysVars>>

GetAtomString ==
    \E idx \in 0..MaxIdSample :
        /\ lastCall' = Call("get_atom_string", idx, get_atom_string(table, idx), table)
        /\ UNCHANGED <<atoms, reverse_atoms, next_id, returned>>
        /\ UNCHANGED <<codecVars, auxVars, sysVars>>

GetAtomName ==
    \E idx \in 0..MaxIdSample :
        /\ lastCall' = Call("get_atom_name", idx, get_atom_name(table, idx), table)
        /\ UNCHANGED <<atoms, reverse_atoms, next_id, returned>>
        /\ UNCHANGED <<codecVars, auxVars, sysVars>>

Count ==
    /\ lastCall' = Call("count", <<>>, count(table), table)
    /\ UNCHANGED <<atoms, reverse_atoms, next_id, returned>>
    /\ UNCHANGED <<codecVars, auxVars, sysVars>>

Clear ==
    /\ SetTable(clear(table))
    /\ lastCall' = Call("clear", <<>>, NoResult, table)
    /\ returned' = {}
    /\ UNCHANGED <<codecVars, auxVars, sysVars>>

CompareAtoms ==
    \E idx1 \in 0..MaxIdSample : \E idx2 \in 0..MaxIdSample :
        /\ lastCall' = Call("compare_atoms", <<idx1, idx2>>,
                            compare_atoms(table, idx1, idx2), table)
        /\ UNCHANGED <<atoms, reverse_atoms, next_id, returned>>
        /\ UNCHANGED <<codecVars, auxVars, sysVars>>

---------------------------------------------------------------------------
(* Callers of ensure_atom_str that run at the same time on one table.  A   *)
(* caller takes one step per access to a field of the table; the fields    *)
(* are RefCells, which have no lock: a caller that finds next_id mutably   *)
(* borrowed panics, and when the two accesses to the borrow flag race it   *)
(* may also miss the borrow and go on.                                     *)

\* how many callers run at the same time
NumCallers == 2

Callers == 1..NumCallers

Panic == [k |-> "Panic"]

\* the caller holds the RefMut of next_id: from borrow_mut() to the return
HoldsNextId(c) ==
    callers[c].pc \in {"read_next_id", "incr_next_id", "insert_atoms", "insert_reverse", "return"}

CallersInit ==
    callers \in [Callers -> {[pc |-> "check", name |-> name, new_id |-> 0, res |-> NoResult] :
                                name \in StrNames}]

\* the length test and the lookup under atoms.borrow()
CallerCheck(c) ==
    /\ callers[c].pc = "check"
    /\ callers' =
        IF len(callers[c].name) > MaxAtomLen
        THEN [callers EXCEPT ![c].pc = "done", ![c].res = Err("InvalidAtomData")]
        ELSE IF callers[c].name \in DOMAIN atoms
        THEN [callers EXCEPT ![c].pc = "done", ![c].res = Ok(atoms[callers[c].name])]
        ELSE [callers EXCEPT ![c].pc = "borrow_next_id"]
    /\ UNCHANGED <<dirVars, codecVars, call, result, sysVars>>

\* let mut next_id = self.next_id.borrow_mut()
CallerBorrowNextId(c) ==
    /\ callers[c].pc = "borrow_next_id"
    /\ \/ callers' = [callers EXCEPT ![c].pc = "read_next_id"]
       \/ /\ \E d \in Callers \ {c} : HoldsNextId(d)
          /\ callers' = [callers EXCEPT ![c].pc = "panicked", ![c].res = Panic]
    /\ UNCHANGED <<dirVars, codecVars, call, result, sysVars>>

\* let new_id = *next_id
CallerReadNextId(c) ==
    /\ callers[c].pc = "read_next_id"
    /\ callers' = [callers EXCEPT ![c].pc = "incr_next_id", ![c].new_id = next_id]
    /\ UNCHANGED <<dirVars, codecVars, call, result, sysVars>>

\* *next_id += 1
CallerIncrNextId(c) ==
    /\ callers[c].pc = "incr_next_id"
    /\ next_id' = next_id + 1
    /\ callers' = [callers EXCEPT ![c].pc = "insert_atoms"]
    /\ UNCHANGED <<atoms, reverse_atoms, lastCall, returned, codecVars, call, result, sysVars>>

\* self.atoms.borrow_mut().insert(name.to_string(), new_id)
CallerInsertAtoms(c) ==
    /\ callers[c].pc = "insert_atoms"
    /\ atoms' = Insert(atoms, callers[c].name, callers[c].new_id)
    /\ callers' = [callers EXCEPT ![c].pc = "insert_reverse"]
    /\ UNCHANGED <<reverse_atoms, next_id, lastCall, returned, codecVars, call, result, sysVars>>

\* self.reverse_atoms.borrow_mut().insert(new_id, name.to_string())
CallerInsertReverse(c) ==
    /\ callers[c].pc = "insert_reverse"
    /\ reverse_atoms' = Insert(reverse_atoms, callers[c].new_id, callers[c].name)
    /\ callers' = [callers EXCEPT ![c].pc = "return"]
    /\ UNCHANGED <<atoms, next_id, lastCall, returned, codecVars, call, result, sysVars>>

\* Ok(AtomIndex(new_id)); the RefMut of next_id is dropped
CallerReturn(c) ==
    /\ callers[c].pc = "return"
    /\ callers' = [callers EXCEPT ![c].pc = "done", ![c].res = Ok(callers[c].new_id)]
    /\ UNCHANGED <<dirVars, codecVars, call, result, sysVars>>

---------------------------------------------------------------------------
(* src/term.rs: the functions on TermValue.  A closure passed to fold_list *)
(* is named; ApplyFold calls it.                                           *)

\* lists have at most MaxListLen cells and maps at most MaxPairs pairs
MaxListLen == 3
MaxPairs == 2

\* TermValue::as_int
as_int(v) == IF v.tag = "SmallInt" THEN Some(v.i) ELSE None

\* Option::unwrap_or
unwrap_or(o, default) == IF o.k = "Some" THEN o.v ELSE default

\* the builds of the crate: with overflow checks (the default of a debug
\* build) and without them (the default of a release build)
Builds == {"debug", "release"}

\* a + b on i32: a sum above i32::MAX or below i32::MIN panics in a build
\* with overflow checks and wraps by 2^32 in one without.  The sum is formed
\* only where it is an i32.
I32Add(a, b, build) ==
    IF b > 0 /\ a > MaxI32 - b THEN
        IF build = "debug" THEN Panic ELSE Ok(((a - MaxI32 - 1) + b) + MinI32)
    ELSE IF b < 0 /\ a < MinI32 - b THEN
        IF build = "debug" THEN Panic ELSE Ok((((a - MinI32) + b) + MaxI32) + 1)
    ELSE Ok(a + b)

\* f(acc, elem) for the closures |acc, elem| acc + elem.as_int().unwrap_or(0),
\* |acc, _| acc + 1 of list_length, and one that appends elem to a vector
\* (the values of these calls are far from the ends of i32 and usize); and
\* for the closure of sum_list in either build, where acc is Ok(an i32)
\* while no addition has panicked
ApplyFold(f, acc, elem) ==
    IF f = "sum" THEN acc + unwrap_or(as_int(elem), 0)
    ELSE IF f \in Builds THEN
        IF acc.k = "Panic" THEN acc
        ELSE I32Add(acc.v, unwrap_or(as_int(elem), 0), f)
    ELSE IF f = "count" THEN acc + 1
    ELSE Append(acc, elem)

RECURSIVE fold_list_with_tail(_, _, _)
\* the mutant of fold_list: a tail that is no list is folded as an element
fold_list_with_tail(self, init, f) ==
    IF self.tag = "Nil" THEN init
    ELSE IF self.tag = "List" THEN
        LET acc == ApplyFold(f, init, self.head) IN
        fold_list_with_tail(self.tail, acc, f)
    ELSE ApplyFold(f, init, self)

RECURSIVE fold_list(_, _, _)
\* TermValue::fold_list
fold_list(self, init, f) ==
    IF self.tag = "Nil" THEN init
    ELSE IF self.tag = "List" THEN
        LET acc == ApplyFold(f, init, self.head) IN
        fold_list(self.tail, acc, f)
    ELSE init

\* the f64 that is not a number; the other f64 of the model are written as
\* their literals, and no two of them are the two zeros
NaN == "NaN"

RECURSIVE eq(_, _)
\* <TermValue as PartialEq>::eq, which is derived: the same variant with
\* equal fields, an f64 being equal to an f64 as IEEE 754 has it
eq(a, b) ==
    IF a.tag # b.tag THEN FALSE
    ELSE IF a.tag = "Float" THEN a.x # NaN /\ a.x = b.x
    ELSE IF a.tag = "Tuple" THEN
        /\ Len(a.elements) = Len(b.elements)
        /\ \A i \in DOMAIN a.elements : eq(a.elements[i], b.elements[i])
    ELSE IF a.tag = "List" THEN eq(a.head, b.head) /\ eq(a.tail, b.tail)
    ELSE IF a.tag = "Map" THEN
        /\ Len(a.pairs) = Len(b.pairs)
        /\ \A i \in DOMAIN a.pairs :
            eq(a.pairs[i][1], b.pairs[i][1]) /\ eq(a.pairs[i][2], b.pairs[i][2])
    ELSE a = b

\* Vec::iter().position(|(k, _)| k == &key)
position(pairs, key) ==
    LET hits == {i \in DOMAIN pairs : eq(pairs[i][1], key)} IN
    IF hits = {} THEN None
    ELSE Some(CHOOSE i \in hits : \A j \in hits : i <= j)

\* the mutant of map_set: the pairs of self are changed, not a copy of them
map_set_in_place(self, key, value) ==
    IF self.tag = "Map" THEN
        LET pos == position(self.pairs, key)
            new_pairs == IF pos.k = "Some"
                         THEN [self.pairs EXCEPT ![pos.v] = <<key, value>>]
                         ELSE Append(self.pairs, <<key, value>>) IN
        [self |-> Map(new_pairs), r |-> Map(new_pairs)]
    ELSE [self |-> self, r |-> self]

\* TermValue::map_set: self after the call (it is borrowed, its pairs are
\* cloned) and the value returned
map_set(self, key, value) ==
    IF self.tag = "Map" THEN
        LET pos == position(self.pairs, key)
            new_pairs == IF pos.k = "Some"
                         THEN [self.pairs EXCEPT ![pos.v] = <<key, value>>]
                         ELSE Append(self.pairs, <<key, value>>) IN
        [self |-> self, r |-> Map(new_pairs)]
    ELSE [self |-> self, r |-> self]

\* TermValue::map_get: the value of the first pair whose key equals key
map_get(self, key) ==
    IF self.tag = "Map" THEN
        LET found == position(self.pairs, key) IN
        IF found.k = "Some" THEN Some(self.pairs[found.v][2]) ELSE None
    ELSE None

\* sequences over S of length at most n
SeqsUpTo(S, n) == UNION {[1..k -> S] : k \in 0..n}

RECURSIVE ConsChain(_, _)
\* the cons cells of the elements es, closed by tail
ConsChain(es, tail) ==
    IF es = <<>> THEN tail ELSE List(Head(es), ConsChain(Tail(es), tail))

\* list elements, and what a chain may end in: Nil or a value that is no list
ListElems == {SmallInt(1), SmallInt(2), Nil}
ChainTails == {Nil, SmallInt(3), Atom(1), Tuple(<<SmallInt(7)>>)}

\* the closures and the accumulators they start from
FoldInits == {<<"sum", 0>>, <<"sum", 10>>, <<"count", 0>>, <<"push", <<>>>>,
              <<"push", <<SmallInt(9)>>>>}

FoldCalls ==
    {[fn |-> "fold_list", elems |-> es, tail |-> t, self |-> ConsChain(es, t),
      f |-> fi[1], init |-> fi[2]] :
        es \in SeqsUpTo(ListElems, MaxListLen), t \in ChainTails, fi \in FoldInits}

MapKeys == {Atom(1), Atom(2), SmallInt(1), Float(NaN)}
MapValues == {SmallInt(1), SmallInt(2)}

MapSetCalls ==
    {[fn |-> "map_set", self |-> Map(ps), saved |-> Map(ps), key |-> k, value |-> v] :
        ps \in SeqsUpTo(MapKeys \X MapValues, MaxPairs), k \in MapKeys, v \in MapValues}

\* predicate(elem) for closures that keep the integers, keep the Nil
\* elements, keep every element and keep none
ApplyPredicate(predicate, elem) ==
    IF predicate = "is_int" THEN as_int(elem).k = "Some"
    ELSE IF predicate = "is_nil" THEN elem.tag = "Nil"
    ELSE predicate = "all"

RECURSIVE filter_list_to_nil(_, _)
\* the mutant of filter_list: a tail that is no list is replaced by Nil
filter_list_to_nil(self, predicate) ==
    IF self.tag = "Nil" THEN Nil
    ELSE IF self.tag = "List" THEN
        LET filtered_tail == filter_list_to_nil(self.tail, predicate) IN
        IF ApplyPredicate(predicate, self.head)
        THEN List(self.head, filtered_tail)
        ELSE filtered_tail
    ELSE Nil

RECURSIVE filter_list(_, _)
\* TermValue::filter_list
filter_list(self, predicate) ==
    IF self.tag = "Nil" THEN Nil
    ELSE IF self.tag = "List" THEN
        LET filtered_tail == filter_list(self.tail, predicate) IN
        IF ApplyPredicate(predicate, self.head)
        THEN List(self.head, filtered_tail)
        ELSE filtered_tail
    ELSE self

\* TermValue::list_length
list_length(self) == fold_list(self, 0, "count")

FilterCalls ==
    {[fn |-> "filter_list", elems |-> es, tail |-> t, self |-> ConsChain(es, t),
      predicate |-> p] :
        es \in SeqsUpTo(ListElems, MaxListLen), t \in ChainTails,
        p \in {"is_int", "is_nil", "all", "none"}}

\* TermValue::int
int(value) == SmallInt(value)

\* f(elem) for the closure of double_ints: Ok(the element it makes) or
\* Panic; i * 2 is i + i, in range and out of it
ApplyMap(build, elem) ==
    LET i == as_int(elem) IN
    IF i.k = "Some" THEN
        LET d == I32Add(i.v, i.v, build) IN
        IF d.k = "Ok" THEN Ok(int(d.v)) ELSE d
    ELSE Ok(elem)

RECURSIVE map_list(_, _)
\* TermValue::map_list, with the closure of double_ints in the build given;
\* a panic of the closure ends the call
map_list(self, build) ==
    IF self.tag = "Nil" THEN Ok(Nil)
    ELSE IF self.tag = "List" THEN
        LET head == ApplyMap(build, self.head) IN
        IF head.k = "Panic" THEN head
        ELSE LET tail == map_list(self.tail, build) IN
             IF tail.k = "Panic" THEN tail ELSE Ok(List(head.v, tail.v))
    ELSE Ok(self)

\* TermValue::sum_list in the build given: Ok(the i32 returned) or Panic
sum_list(self, build) == fold_list(self, Ok(0), build)

\* TermValue::double_ints in the build given: Ok(the list returned) or Panic
double_ints(self, build) == map_list(self, build)

\* elements of the lists that are summed and doubled: integers at the ends
\* and in the middle of i32, and an element that is no integer
ArithElems ==
    {SmallInt(MaxI32), SmallInt(MinI32), SmallInt(2^30), SmallInt(1), SmallInt(-3),
     Atom(1)}

ArithCalls ==
    {[fn |-> fn, elems |-> es, self |-> ConsChain(es, Nil), build |-> b] :
        fn \in {"sum_list", "double_ints"}, es \in SeqsUpTo(ArithElems, MaxListLen),
        b \in Builds}

\* self.sum_list()
SumList ==
    /\ call.fn = "sum_list"
    /\ result = NoResult
    /\ result' = sum_list(call.self, call.build)
    /\ UNCHANGED <<call, callers, dirVars, codecVars, sysVars>>

\* self.double_ints()
DoubleInts ==
    /\ call.fn = "double_ints"
    /\ result = NoResult
    /\ result' = double_ints(call.self, call.build)
    /\ UNCHANGED <<call, callers, dirVars, codecVars, sysVars>>

\* self.fold_list(init, f)
FoldList ==
    /\ call.fn = "fold_list"
    /\ result = NoResult
    /\ result' = Ok(fold_list(call.self, call.init, call.f))
    /\ UNCHANGED <<call, callers, dirVars, codecVars, sysVars>>

\* self.map_set(key, value); the caller keeps self
MapSet ==
    /\ call.fn = "map_set"
    /\ result = NoResult
    /\ LET out == map_set(call.self, call.key, call.value) IN
        /\ result' = Ok(out.r)
        /\ call' = [call EXCEPT !.self = out.self]
    /\ UNCHANGED <<callers, dirVars, codecVars, sysVars>>

\* after self.map_set(key, value): self.map_get(probe) and the same on the
\* map that map_set returned
MapGet ==
    /\ call.fn = "map_set"
    /\ result.k = "Ok"
    /\ \E probe \in MapKeys :
        call' = [fn |-> "map_get", self |-> call.self, saved |-> call.saved,
                 key |-> call.key, value |-> call.value, probe |-> probe,
                 before |-> map_get(call.self, probe),
                 after |-> map_get(result.v, probe)]
    /\ UNCHANGED <<result, callers, dirVars, codecVars, sysVars>>

\* self.filter_list(predicate)
FilterList ==
    /\ call.fn = "filter_list"
    /\ result = NoResult
    /\ result' = Ok(filter_list(call.self, call.predicate))
    /\ UNCHANGED <<call, callers, dirVars, codecVars, sysVars>>

\* MockAtomTable::atom_equals_str
atom_equals_str(t, idx, name) ==
    LET atom_name == get(t.reverse_atoms, idx) IN
    IF atom_name.k = "Some" THEN atom_name.v = name ELSE FALSE

\* TermValue::atom: the smart constructor of an Atom from a name
atom(name) ==
    LET index == CASE name = "ok" -> 1
                   [] name = "error" -> 2
                   [] name = "true" -> 3
                   [] name = "false" -> 4
                   [] name = "undefined" -> 5
                   [] name = "badarg" -> 6
                   [] name = "nil" -> 7
                   [] OTHER -> 0 IN
    Atom(index)

\* the names TermValue::atom is called with: the sample names and the names
\* its own list holds
AtomCallNames == StrNames \cup {"true", "false", "undefined", "badarg", "nil"}

\* TermValue::atom(name)
TermValueAtom ==
    /\ \E name \in AtomCallNames :
        /\ call' = [fn |-> "atom", name |-> name]
        /\ result' = Ok(atom(name))
    /\ UNCHANGED <<callers, dirVars, codecVars, sysVars>>

---------------------------------------------------------------------------
(* src/tagged.rs: records as maps that carry a `type` atom.  A function    *)
(* that is handed the table yields the table after the call and its        *)
(* result, [t, r]; Then is the `?` of the code: an Err ends the function.  *)

\* TaggedError
AtomError(e) == <<"AtomError", e>>
WrongType(expected, found) == <<"WrongType", expected, found>>
MissingField(field) == <<"MissingField", field>>
TypeMismatch(expected, found) == <<"TypeMismatch", expected, found>>
InvalidVariant(enum_name, variant) == <<"InvalidVariant", enum_name, variant>>
InvalidUtf8 == <<"InvalidUtf8">>

\* expr? followed by the rest of the function
Then(out, rest(_, _)) == IF out.r.k = "Err" THEN out ELSE rest(out.t, out.r.v)

\* .map_err(TaggedError::from)
map_err_from(out) ==
    [t |-> out.t, r |-> IF out.r.k = "Err" THEN Err(AtomError(out.r.e)) ELSE out.r]

\* get_type_atom
get_type_atom(type_name, t) == map_err_from(ensure_atom_str(t, type_name))

\* type_field_atom
type_field_atom(t) == map_err_from(ensure_atom_str(t, "type"))

\* variant_field_atom
variant_field_atom(t) == map_err_from(ensure_atom_str(t, "variant"))

\* atoms::true_atom(table), atoms::false_atom(table), atoms::nil(table): the
\* id the table has for the name
true_atom(t) == ensure_atom_str(t, "true")
false_atom(t) == ensure_atom_str(t, "false")
nil(t) == ensure_atom_str(t, "nil")

\* the mutant of get_map_value: the first pair answers for every key
get_map_value_first_pair(map, key_atom) ==
    IF map.tag = "Map" THEN
        IF Len(map.pairs) = 0 THEN Err(Other("key not found in map"))
        ELSE Ok(map.pairs[1][2])
    ELSE Err(WrongType("map", "other"))

\* get_map_value: the value of the first pair whose key is the atom
get_map_value(map, key_atom) ==
    IF map.tag = "Map" THEN
        LET found == position(map.pairs, Atom(key_atom)) IN
        IF found.k = "Some" THEN Ok(map.pairs[found.v][2])
        ELSE Err(Other("key not found in map"))
    ELSE Err(WrongType("map", "other"))

\* the name whose bytes these are
StrOf(bytes) == CHOOSE name \in Utf8Names : Bytes(name) = bytes

\* AtomRef::as_str
as_str(atom_ref) ==
    IF IsUtf8(atom_ref.data) THEN Ok(StrOf(atom_ref.data)) ELSE Err("Utf8Error")

\* String::from_utf8(bytes.clone()).map_err(|_| TaggedError::InvalidUtf8)
string_from_utf8(bytes) == IF IsUtf8(bytes) THEN Ok(bytes) ELSE Err(InvalidUtf8)

\* extract_string_field
extract_string_field(map, field_name, t) ==
    Then(get_type_atom(field_name, t), LAMBDA t1, field_atom :
        LET value == get_map_value(map, field_atom) IN
        IF value.k = "Err" THEN [t |-> t1, r |-> value]
        ELSE IF value.v.tag = "Binary"
        THEN [t |-> t1, r |-> string_from_utf8(value.v.data)]
        ELSE [t |-> t1, r |-> Err(WrongType("binary/string", "other"))])

\* extract_int_field
extract_int_field(map, field_name, t) ==
    Then(get_type_atom(field_name, t), LAMBDA t1, field_atom :
        LET value == get_map_value(map, field_atom) IN
        IF value.k = "Err" THEN [t |-> t1, r |-> value]
        ELSE IF value.v.tag = "SmallInt" THEN [t |-> t1, r |-> Ok(value.v.i)]
        ELSE [t |-> t1, r |-> Err(WrongType("integer", "other"))])

\* i as f64: every i32 is an f64, written apart from the f64 literals
F64FromI32(i) == <<"f64", i>>

\* extract_float_field
extract_float_field(map, field_name, t) ==
    Then(get_type_atom(field_name, t), LAMBDA t1, field_atom :
        LET value == get_map_value(map, field_atom) IN
        IF value.k = "Err" THEN [t |-> t1, r |-> value]
        ELSE IF value.v.tag = "Float" THEN [t |-> t1, r |-> Ok(value.v.x)]
        ELSE IF value.v.tag = "SmallInt"
        THEN [t |-> t1, r |-> Ok(F64FromI32(value.v.i))]
        ELSE [t |-> t1, r |-> Err(WrongType("float", "other"))])

\* extract_bool_field
extract_bool_field(map, field_name, t) ==
    Then(get_type_atom(field_name, t), LAMBDA t1, field_atom :
        LET value == get_map_value(map, field_atom) IN
        IF value.k = "Err" THEN [t |-> t1, r |-> value]
        ELSE
        Then(map_err_from(true_atom(t1)), LAMBDA t2, true_idx :
        Then(map_err_from(false_atom(t2)), LAMBDA t3, false_idx :
            IF value.v.tag = "Atom" THEN
                IF value.v.idx = true_idx THEN [t |-> t3, r |-> Ok(TRUE)]
                ELSE IF value.v.idx = false_idx THEN [t |-> t3, r |-> Ok(FALSE)]
                ELSE [t |-> t3, r |-> Err(WrongType("boolean", "other atom"))]
            ELSE [t |-> t3, r |-> Err(WrongType("boolean", "other"))])))

\* extractor(value, table) for the closure that reads a Binary as a String
ApplyExtractor(extractor, value, t) ==
    IF value.tag = "Binary" THEN [t |-> t, r |-> string_from_utf8(value.data)]
    ELSE [t |-> t, r |-> Err(WrongType("binary", "other"))]

\* Result::map(Some)
map_Some(out) ==
    [t |-> out.t, r |-> IF out.r.k = "Ok" THEN Ok(Some(out.r.v)) ELSE out.r]

\* the mutant of extract_optional_field: a missing key is an error
extract_optional_field_strict(map, field_name, t, extractor) ==
    Then(get_type_atom(field_name, t), LAMBDA t1, field_atom :
        LET value == get_map_value(map, field_atom) IN
        IF value.k = "Ok" THEN
            Then(map_err_from(nil(t1)), LAMBDA t2, nil_atom :
                IF value.v.tag = "Atom" /\ value.v.idx = nil_atom
                THEN [t |-> t2, r |-> Ok(None)]
                ELSE map_Some(ApplyExtractor(extractor, value.v, t2)))
        ELSE [t |-> t1, r |-> value])

\* extract_optional_field
extract_optional_field(map, field_name, t, extractor) ==
    Then(get_type_atom(field_name, t), LAMBDA t1, field_atom :
        LET value == get_map_value(map, field_atom) IN
        IF value.k = "Ok" THEN
            Then(map_err_from(nil(t1)), LAMBDA t2, nil_atom :
                IF value.v.tag = "Atom" /\ value.v.idx = nil_atom
                THEN [t |-> t2, r |-> Ok(None)]
                ELSE map_Some(ApplyExtractor(extractor, value.v, t2)))
        ELSE [t |-> t1, r |-> Ok(None)])

\* the mutant of validate_type_discriminator: any `type` atom passes
validate_type_discriminator_any(map, expected_type, t) ==
    Then(type_field_atom(t), LAMBDA t1, type_atom :
    Then(get_type_atom(expected_type, t1), LAMBDA t2, expected_type_atom :
        LET type_value == get_map_value(map, type_atom) IN
        IF type_value.k = "Err" THEN [t |-> t2, r |-> type_value]
        ELSE IF type_value.v.tag = "Atom" THEN [t |-> t2, r |-> Ok(<<>>)]
        ELSE [t |-> t2, r |-> Err(WrongType("atom", "other"))]))

\* validate_type_discriminator
validate_type_discriminator(map, expected_type, t) ==
    Then(type_field_atom(t), LAMBDA t1, type_atom :
    Then(get_type_atom(expected_type, t1), LAMBDA t2, expected_type_atom :
        LET type_value == get_map_value(map, type_atom) IN
        IF type_value.k = "Err" THEN [t |-> t2, r |-> type_value]
        ELSE IF type_value.v.tag = "Atom" THEN
            IF type_value.v.idx = expected_type_atom THEN [t |-> t2, r |-> Ok(<<>>)]
            ELSE
                LET atom_ref == get_atom_string(t2, type_value.v.idx)
                    actual_name ==
                        IF atom_ref.k = "Ok" THEN
                            LET name == as_str(atom_ref.v) IN
                            IF name.k = "Ok" THEN name.v ELSE "unknown"
                        ELSE "unknown" IN
                [t |-> t2, r |-> Err(TypeMismatch(expected_type, actual_name))]
        ELSE [t |-> t2, r |-> Err(WrongType("atom", "other"))]))

\* the types that implement TaggedMap: i32, String, bool, Option<U>, Vec<U>
\* and the record TestUser {id: i32, name: String, email: Option<String>,
\* active: bool}.  An i32 is an integer, a String its bytes, a bool a
\* BOOLEAN, an Option Some(v) or None, a Vec a sequence, a TestUser a record.
I32Ty == [k |-> "i32"]
StringTy == [k |-> "string"]
BoolTy == [k |-> "bool"]
OptionTy(U) == [k |-> "option", of |-> U]
VecTy(U) == [k |-> "vec", of |-> U]
TestUserTy == [k |-> "test_user"]

\* TaggedMap::type_name
type_name(ty) == ty.k

RECURSIVE from_vec(_)
\* TermValue::from_vec: the proper list of the elements
from_vec(elements) ==
    IF elements = <<>> THEN Nil
    ELSE List(Head(elements), from_vec(Tail(elements)))

RECURSIVE list_to_vec(_)
\* TermValue::list_to_vec: the heads of the cells up to the first tail that
\* is no cell
list_to_vec(self) ==
    IF self.tag = "List" THEN <<self.head>> \o list_to_vec(self.tail)
    ELSE <<>>

\* the pairs of a map, built once the atoms are there
OkMap(t, pairs) == [t |-> t, r |-> Ok(Map(pairs))]

RECURSIVE to_tagged_map(_, _, _)
RECURSIVE to_tagged_maps(_, _, _, _)
\* the loop of Vec<U>::to_tagged_map: element_maps.push(item.to_tagged_map(table)?)
to_tagged_maps(U, items, t, element_maps) ==
    IF items = <<>> THEN [t |-> t, r |-> Ok(element_maps)]
    ELSE Then(to_tagged_map(U, Head(items), t), LAMBDA t1, m :
            to_tagged_maps(U, Tail(items), t1, Append(element_maps, m)))

\* TaggedMap::to_tagged_map of each type
to_tagged_map(ty, self, t) ==
    IF ty.k = "i32" THEN
        Then(get_type_atom("i32", t), LAMBDA t1, type_atom :
        Then(get_type_atom("value", t1), LAMBDA t2, value_atom :
        Then(type_field_atom(t2), LAMBDA t3, type_key :
            OkMap(t3, <<<<Atom(type_key), Atom(type_atom)>>,
                        <<Atom(value_atom), SmallInt(self)>>>>))))
    ELSE IF ty.k = "string" THEN
        Then(get_type_atom("string", t), LAMBDA t1, type_atom :
        Then(get_type_atom("value", t1), LAMBDA t2, value_atom :
        Then(type_field_atom(t2), LAMBDA t3, type_key :
            OkMap(t3, <<<<Atom(type_key), Atom(type_atom)>>,
                        <<Atom(value_atom), Binary(self)>>>>))))
    ELSE IF ty.k = "bool" THEN
        Then(get_type_atom("bool", t), LAMBDA t1, type_atom :
        Then(get_type_atom("value", t1), LAMBDA t2, value_atom :
        Then(map_err_from(IF self THEN true_atom(t2) ELSE false_atom(t2)),
             LAMBDA t3, bool_atom :
        Then(type_field_atom(t3), LAMBDA t4, type_key :
            OkMap(t4, <<<<Atom(type_key), Atom(type_atom)>>,
                        <<Atom(value_atom), Atom(bool_atom)>>>>)))))
    ELSE IF ty.k = "option" THEN
        IF self.k = "Some" THEN
            Then(to_tagged_map(ty.of, self.v, t), LAMBDA t0, inner_map :
            Then(get_type_atom("option", t0), LAMBDA t1, type_atom :
            Then(variant_field_atom(t1), LAMBDA t2, variant_atom :
            Then(get_type_atom("some", t2), LAMBDA t3, some_atom :
            Then(get_type_atom("value", t3), LAMBDA t4, value_atom :
            Then(type_field_atom(t4), LAMBDA t5, type_key :
                OkMap(t5, <<<<Atom(type_key), Atom(type_atom)>>,
                            <<Atom(variant_atom), Atom(some_atom)>>,
                            <<Atom(value_atom), inner_map>>>>)))))))
        ELSE
            Then(get_type_atom("option", t), LAMBDA t1, type_atom :
            Then(variant_field_atom(t1), LAMBDA t2, variant_atom :
            Then(map_err_from(nil(t2)), LAMBDA t3, none_atom :
            Then(type_field_atom(t3), LAMBDA t4, type_key :
                OkMap(t4, <<<<Atom(type_key), Atom(type_atom)>>,
                            <<Atom(variant_atom), Atom(none_atom)>>>>)))))
    ELSE IF ty.k = "vec" THEN
        Then(get_type_atom("vec", t), LAMBDA t1, type_atom :
        Then(get_type_atom("elements", t1), LAMBDA t2, elements_atom :
        Then(to_tagged_maps(ty.of, self, t2, <<>>), LAMBDA t3, element_maps :
        Then(type_field_atom(t3), LAMBDA t4, type_key :
            OkMap(t4, <<<<Atom(type_key), Atom(type_atom)>>,
                        <<Atom(elements_atom), from_vec(element_maps)>>>>)))))
    ELSE
        Then(get_type_atom("test_user", t), LAMBDA t1, type_atom :
        Then(get_type_atom("id", t1), LAMBDA t2, id_atom :
        Then(get_type_atom("name", t2), LAMBDA t3, name_atom :
        Then(get_type_atom("email", t3), LAMBDA t4, email_atom :
        Then(get_type_atom("active", t4), LAMBDA t5, active_atom :
        Then(IF self.email.k = "Some"
             THEN [t |-> t5, r |-> Ok(Binary(self.email.v))]
             ELSE LET out == map_err_from(ensure_atom_str(t5, "nil")) IN
                  IF out.r.k = "Ok" THEN [t |-> out.t, r |-> Ok(Atom(out.r.v))]
                  ELSE out,
             LAMBDA t6, email_value :
        Then(map_err_from(ensure_atom_str(t6, IF self.active THEN "true" ELSE "false")),
             LAMBDA t7, active_idx :
        Then(type_field_atom(t7), LAMBDA t8, type_key :
            OkMap(t8, <<<<Atom(type_key), Atom(type_atom)>>,
                        <<Atom(id_atom), SmallInt(self.id)>>,
                        <<Atom(name_atom), Binary(self.name)>>,
                        <<Atom(email_atom), email_value>>,
                        <<Atom(active_atom), Atom(active_idx)>>>>)))))))))

RECURSIVE from_tagged_map(_, _, _)
RECURSIVE from_tagged_maps(_, _, _, _)
\* the loop of Vec<U>::from_tagged_map: result.push(U::from_tagged_map(element_map, table)?)
from_tagged_maps(U, elements_vec, t, result_vec) ==
    IF elements_vec = <<>> THEN [t |-> t, r |-> Ok(result_vec)]
    ELSE Then(from_tagged_map(U, Head(elements_vec), t), LAMBDA t1, item :
            from_tagged_maps(U, Tail(elements_vec), t1, Append(result_vec, item)))

\* TaggedMap::from_tagged_map of each type
from_tagged_map(ty, map, t) ==
    Then(validate_type_discriminator(map, type_name(ty), t), LAMBDA t0, unit :
        IF ty.k = "i32" THEN extract_int_field(map, "value", t0)
        ELSE IF ty.k = "string" THEN extract_string_field(map, "value", t0)
        ELSE IF ty.k = "bool" THEN extract_bool_field(map, "value", t0)
        ELSE IF ty.k = "option" THEN
            Then(variant_field_atom(t0), LAMBDA t1, variant_atom :
                LET variant_value == get_map_value(map, variant_atom) IN
                IF variant_value.k = "Err" THEN [t |-> t1, r |-> variant_value]
                ELSE
                Then(get_type_atom("some", t1), LAMBDA t2, some_atom :
                Then(map_err_from(nil(t2)), LAMBDA t3, none_atom :
                    IF variant_value.v.tag = "Atom" /\ variant_value.v.idx = some_atom
                    THEN
                        Then(get_type_atom("value", t3), LAMBDA t4, value_atom :
                            LET inner_map == get_map_value(map, value_atom) IN
                            IF inner_map.k = "Err" THEN [t |-> t4, r |-> inner_map]
                            ELSE map_Some(from_tagged_map(ty.of, inner_map.v, t4)))
                    ELSE IF variant_value.v.tag = "Atom" /\ variant_value.v.idx = none_atom
                    THEN [t |-> t3, r |-> Ok(None)]
                    ELSE [t |-> t3, r |-> Err(InvalidVariant("Option", "unknown"))])))
        ELSE IF ty.k = "vec" THEN
            Then(get_type_atom("elements", t0), LAMBDA t1, elements_atom :
                LET elements_value == get_map_value(map, elements_atom) IN
                IF elements_value.k = "Err" THEN [t |-> t1, r |-> elements_value]
                ELSE from_tagged_maps(ty.of, list_to_vec(elements_value.v), t1, <<>>))
        ELSE
            Then(extract_int_field(map, "id", t0), LAMBDA t1, id :
            Then(extract_string_field(map, "name", t1), LAMBDA t2, name :
            Then(extract_bool_field(map, "active", t2), LAMBDA t3, active :
            Then(extract_optional_field(map, "email", t3, "binary_to_string"),
                 LAMBDA t4, email :
                [t |-> t4,
                 r |-> Ok([id |-> id, name |-> name, email |-> email,
                           active |-> active])])))))

\* at most MaxTrips calls of to_tagged_map are made on one table
MaxTrips == 2

\* the values that are turned into maps, each with its type
TaggedSamples ==
    ({I32Ty} \X {-1, 0, 7})
    \cup ({StringTy} \X {<<>>, <<65>>, <<195, 169>>})
    \cup ({BoolTy} \X BOOLEAN)
    \cup ({OptionTy(I32Ty)} \X {None, Some(7)})
    \cup ({OptionTy(StringTy)} \X {Some(<<65>>)})
    \cup ({OptionTy(OptionTy(I32Ty))} \X {Some(None)})
    \cup ({VecTy(I32Ty)} \X SeqsUpTo({1, 2}, 2))
    \cup ({VecTy(OptionTy(I32Ty))} \X {<<None>>, <<Some(1), None>>})
    \cup ({VecTy(VecTy(BoolTy))} \X {<<<<>>, <<TRUE, FALSE>>>>})
    \cup ({TestUserTy} \X
            [id : {42}, name : {<<>>, <<65>>}, email : {None, Some(<<66>>)},
             active : BOOLEAN])

\* the types maps are read as
ReadTypes == {I32Ty, StringTy, BoolTy, OptionTy(I32Ty), VecTy(I32Ty), TestUserTy}

\* what a pair of a hand-built map holds: the atom of a name, resolved on the
\* table as get_type_atom(name, &table).unwrap() does, or a term as it stands
\* (Atom(0) is an id no table gives out)
ValTemplates ==
    {[atom |-> "i32"], [atom |-> "string"], [atom |-> "nil"], [atom |-> "true"],
     [term |-> Atom(0)], [term |-> SmallInt(1)], [term |-> Binary(<<65>>)],
     [term |-> Binary(<<255>>)], [term |-> Float("1.5")]}

\* hand-built maps: the keys are the atoms of the names
ShortTemplates == SeqsUpTo({"type", "value", "email"} \X ValTemplates, 1)
MapTemplates ==
    ShortTemplates
    \cup {<<<<"type", ty>>, <<"value", v>>>> :
            ty \in {[atom |-> "i32"], [atom |-> "string"], [term |-> Atom(0)]},
            v \in ValTemplates}
    \cup {<<<<"value", [term |-> SmallInt(1)]>>, <<"type", [atom |-> "string"]>>>>,
          <<<<"type", [atom |-> "string"]>>, <<"type", [atom |-> "i32"]>>>>}

RECURSIVE BuildPairs(_, _, _)
\* TermValue::Map(vec![(TermValue::Atom(get_type_atom(key, &table).unwrap()),
\* value), ..]): the table after the atoms are made, and the pairs
BuildPairs(template, t, pairs) ==
    IF template = <<>> THEN [t |-> t, r |-> pairs]
    ELSE
        LET key == get_type_atom(Head(template)[1], t)
            val == Head(template)[2]
            value == IF "atom" \in DOMAIN val
                     THEN get_type_atom(val.atom, key.t)
                     ELSE [t |-> key.t, r |-> Ok(val.term)] IN
        BuildPairs(Tail(template), value.t,
                   Append(pairs, <<Atom(key.r.v),
                                   IF "atom" \in DOMAIN val THEN Atom(value.r.v)
                                   ELSE value.r.v>>))

\* the extractors of required fields, by name
ApplyRequired(extract, map, field_name, t) ==
    IF extract = "extract_int_field" THEN extract_int_field(map, field_name, t)
    ELSE IF extract = "extract_string_field" THEN extract_string_field(map, field_name, t)
    ELSE IF extract = "extract_float_field" THEN extract_float_field(map, field_name, t)
    ELSE extract_bool_field(map, field_name, t)

RequiredExtractors ==
    {"extract_int_field", "extract_string_field", "extract_float_field",
     "extract_bool_field"}

\* values that are no Map, handed to the extractors in the place of one
NotMaps == {SmallInt(42), Nil}

\* no call on a map is under way
TaggedReady == call.fn \in {"none", "from_tagged_map"} /\ call.trips < MaxTrips

\* x.to_tagged_map(&table)
ToTaggedMap ==
    /\ TaggedReady
    /\ \E s \in TaggedSamples :
        LET out == to_tagged_map(s[1], s[2], table) IN
        /\ SetTable(out.t)
        /\ call' = [fn |-> "to_tagged_map", ty |-> s[1], x |-> s[2], map |-> out.r,
                    trips |-> call.trips + 1]
        /\ result' = NoResult
    /\ UNCHANGED <<lastCall, returned, callers, codecVars, sysVars>>

\* T::from_tagged_map(map, &table) on the map to_tagged_map gave
FromTaggedMap ==
    /\ call.fn = "to_tagged_map"
    /\ call.map.k = "Ok"
    /\ LET out == from_tagged_map(call.ty, call.map.v, table) IN
        /\ SetTable(out.t)
        /\ result' = out.r
    /\ call' = [fn |-> "from_tagged_map", ty |-> call.ty, x |-> call.x, map |-> call.map,
                trips |-> call.trips, pre |-> table]
    /\ UNCHANGED <<lastCall, returned, callers, codecVars, sysVars>>

\* T::from_tagged_map(map, &table) on a hand-built map
FromTaggedMapOn ==
    /\ TaggedReady
    /\ \E ty \in ReadTypes : \E template \in MapTemplates :
        LET built == BuildPairs(template, table, <<>>)
            out == from_tagged_map(ty, Map(built.r), built.t) IN
        /\ SetTable(out.t)
        /\ call' = [fn |-> "from_tagged_map_on", ty |-> ty, map |-> Map(built.r),
                    trips |-> call.trips, pre |-> built.t]
        /\ result' = out.r
    /\ UNCHANGED <<lastCall, returned, callers, codecVars, sysVars>>

\* extract_int_field, extract_string_field, extract_float_field or
\* extract_bool_field(&map, field_name, &table)
ExtractRequired ==
    /\ TaggedReady
    /\ \E extract \in RequiredExtractors : \E template \in ShortTemplates :
       \E field_name \in {"value", "email"} :
        LET built == BuildPairs(template, table, <<>>) IN
        \E map \in {Map(built.r)} \cup NotMaps :
            LET out == ApplyRequired(extract, map, field_name, built.t) IN
            /\ SetTable(out.t)
            /\ call' = [fn |-> extract, map |-> map, field_name |-> field_name,
                        trips |-> call.trips, pre |-> built.t]
            /\ result' = out.r
    /\ UNCHANGED <<lastCall, returned, callers, codecVars, sysVars>>

\* extract_optional_field(&map, field_name, &table, extractor)
ExtractOptional ==
    /\ TaggedReady
    /\ \E template \in ShortTemplates : \E field_name \in {"value", "email"} :
        LET built == BuildPairs(template, table, <<>>) IN
        \E map \in {Map(built.r)} \cup NotMaps :
            LET out == extract_optional_field(map, field_name, built.t,
                                              "binary_to_string") IN
            /\ SetTable(out.t)
            /\ call' = [fn |-> "extract_optional_field", map |-> map,
                        field_name |-> field_name, trips |-> call.trips,
                        pre |-> built.t]
            /\ result' = out.r
    /\ UNCHANGED <<lastCall, returned, callers, codecVars, sysVars>>

---------------------------------------------------------------------------
(* src/atom.rs: mod atoms.  Each well-known atom has a static AtomicU32    *)
(* that caches its index, 0 while unset; get_or_create_atom fills it from  *)
(* the global table.  The callers run at once, a step at a time; the       *)
(* global table is the host's and serves one ensure at a time.             *)

\* the accessors that are called: atoms::ok and atoms::error
WellKnown == {"ok", "error"}

AccessorsInit ==
    /\ cache = [name \in WellKnown |-> 0]
    /\ callers \in [Callers -> {[pc |-> "load", name |-> name, index |-> 0,
                                 res |-> NoResult] : name \in WellKnown}]

\* let current = atomic.load(Ordering::Relaxed); if current != 0 { return Ok(current) }
AccessorLoad(c) ==
    /\ callers[c].pc = "load"
    /\ LET current == cache[callers[c].name] IN
        callers' = [callers EXCEPT ![c] =
            IF current # 0 THEN [@ EXCEPT !.pc = "done", !.res = Ok(current)]
            ELSE [@ EXCEPT !.pc = "ensure"]]
    /\ UNCHANGED <<cache, port, manager, call, result, dirVars, codecVars>>

\* let index = AtomTable::global().ensure_atom_str(name)?
AccessorEnsure(c) ==
    /\ callers[c].pc = "ensure"
    /\ LET out == ensure_atom_str(table, callers[c].name) IN
        /\ SetTable(out.t)
        /\ callers' = [callers EXCEPT ![c] =
            IF out.r.k = "Ok" THEN [@ EXCEPT !.pc = "cas", !.index = out.r.v]
            ELSE [@ EXCEPT !.pc = "done", !.res = out.r]]
    /\ UNCHANGED <<cache, port, manager, call, result, lastCall, returned, codecVars>>

\* atomic.compare_exchange_weak(0, index, ..) finds 0 and stores: Ok(_) => Ok(index)
AccessorCasStores(c) ==
    /\ callers[c].pc = "cas"
    /\ cache[callers[c].name] = 0
    /\ cache' = [cache EXCEPT ![callers[c].name] = callers[c].index]
    /\ callers' = [callers EXCEPT ![c] = [@ EXCEPT !.pc = "done", !.res = Ok(callers[c].index)]]
    /\ UNCHANGED <<port, manager, call, result, dirVars, codecVars>>

\* compare_exchange_weak fails and hands back the value it read, because
\* another caller stored first or, the cell still being 0, spuriously (the
\* weak form may fail although the comparison succeeds): Err(existing) =>
\* Ok(existing)
AccessorCasFails(c) ==
    /\ callers[c].pc = "cas"
    /\ callers' = [callers EXCEPT ![c] =
            [@ EXCEPT !.pc = "done", !.res = Ok(cache[callers[c].name])]]
    /\ UNCHANGED <<cache, port, manager, call, result, dirVars, codecVars>>

---------------------------------------------------------------------------
(* src/port.rs: GenericPortData<T> and the standard message handler.  The  *)
(* wrapper is the record of its fields owner_pid and active; of the inner  *)
(* T, the port's own data, a call keeps the methods it invoked on it       *)
(* (inner_calls), and the answer of the inner handle_message is an input.  *)
(* The host has 32-bit words, so a pid word is a u32 as it stands.         *)

\* PortResult
Continue == "Continue"
Terminate == "Terminate"

\* TermValue::as_atom
as_atom(self) == IF self.tag = "Atom" THEN Some(self.idx) ELSE None

\* TermValue::is_atom_str
is_atom_str(self, name) ==
    LET a == as_atom(self) IN
    IF a.k = "Some" THEN
        IF a.v = 1 THEN name = "ok"
        ELSE IF a.v = 2 THEN name = "error"
        ELSE IF a.v = 3 THEN name = "true"
        ELSE IF a.v = 4 THEN name = "false"
        ELSE FALSE
    ELSE FALSE

\* GenericPortData::new
GenericPortData_new == [kind |-> "port", owner_pid |-> 0, active |-> FALSE]

\* GenericPortData::set_owner
set_owner(self, pid) ==
    [self |-> [self EXCEPT !.owner_pid = pid, !.active = TRUE],
     inner_calls |-> <<"set_owner_pid">>]

\* GenericPortData::deactivate
deactivate(self) ==
    [self |-> [self EXCEPT !.active = FALSE],
     inner_calls |-> <<"set_active", "cleanup">>]

\* <GenericPortData as PlatformData>::cleanup
cleanup(self) == deactivate(self)

\* <GenericPortData as PortData>::handle_message; inner_result is what the
\* inner handler answers when it is asked
handle_message(self, inner_result) ==
    IF self.active THEN
        [self |-> self, r |-> inner_result, inner_calls |-> <<"handle_message">>]
    ELSE [self |-> self, r |-> Terminate, inner_calls |-> <<>>]

\* <GenericPortData as PortData>::get_owner_pid
get_owner_pid(self) == IF self.owner_pid # 0 THEN Some(self.owner_pid) ELSE None

\* <GenericPortData as PortData>::set_owner_pid
set_owner_pid(self, pid) ==
    [self |-> [self EXCEPT !.owner_pid = pid], inner_calls |-> <<>>]

\* <GenericPortData as PortData>::is_active
is_active(self) == self.active

\* <GenericPortData as PortData>::set_active
set_active(self, active) ==
    [self |-> [self EXCEPT !.active = active], inner_calls |-> <<>>]

\* parse_gen_message; message.result is what parse_port_message returned
parse_gen_message(message) ==
    IF message.result # 0
    THEN Ok([pid |-> message.pid, reference |-> message.reference,
             command |-> message.command])
    ELSE Err(BadArg)

\* term_to_pid
term_to_pid(raw) == Ok(raw % 2^32)

\* handle_standard_message; port_data is the context's platform data, of
\* kind "none" when the pointer is null.  replies are the reasons of the
\* replies sent, "ok" for create_ok_reply.
handle_standard_message(port_data, message, inner_result, ub) ==
    IF port_data.kind = "none" THEN
        [self |-> port_data, r |-> Terminate, inner_calls |-> <<>>, replies |-> <<>>]
    ELSE
    LET parsed == parse_gen_message(message) IN
    IF parsed.k # "Ok" THEN
        [self |-> port_data, r |-> Terminate, inner_calls |-> <<>>, replies |-> <<>>]
    ELSE
    LET command_value == to_value(parsed.v.command, <<>>, ub) IN
    IF command_value.k # "Ok" THEN
        [self |-> port_data, r |-> Continue, inner_calls |-> <<>>,
         replies |-> <<"invalid_command">>]
    ELSE IF is_atom_str(command_value.v, "start") THEN
        LET pid_u32 == term_to_pid(parsed.v.pid)
            out == set_owner(port_data, pid_u32.v) IN
        [self |-> out.self, r |-> Continue, inner_calls |-> out.inner_calls,
         replies |-> <<"ok">>]
    ELSE IF is_atom_str(command_value.v, "stop") THEN
        LET out == deactivate(port_data) IN
        [self |-> out.self, r |-> Terminate, inner_calls |-> out.inner_calls,
         replies |-> <<"ok">>]
    ELSE IF is_atom_str(command_value.v, "status") THEN
        [self |-> port_data, r |-> Continue, inner_calls |-> <<>>,
         replies |-> <<"ok">>]
    ELSE
        LET out == handle_message(port_data, inner_result) IN
        [self |-> out.self, r |-> out.r, inner_calls |-> out.inner_calls,
         replies |-> <<>>]

\* the pids of the calls; 0 is the value owner_pid starts with
PidSamples == {0, 7}

\* the names the port's peers intern
CommandNames == {"start", "stop"}

\* the command words of the messages: every atom of the table, a small
\* integer and the word 0, which decodes to Invalid
CommandWords(t) ==
    {encode_atom(idx, 32).v : idx \in DOMAIN t.reverse_atoms}
    \cup {encode_small_int(5, 32).v, UsizeFromU32(0, 32)}

\* the messages a port is sent
Messages(t) ==
    [result : {0, 1}, pid : PidSamples, reference : {3}, command : CommandWords(t)]

\* a peer interns a command name
PortIntern ==
    /\ \E name \in CommandNames : SetTable(ensure_atom_str(table, name).t)
    /\ UNCHANGED <<lastCall, returned, codecVars, auxVars, sysVars>>

PortNew ==
    /\ port' = GenericPortData_new
    /\ call' = [fn |-> "new"]
    /\ UNCHANGED <<cache, manager, callers, result, dirVars, codecVars>>

\* a call on the wrapper that yields no PortResult
PortCall(fn, arg, out) ==
    /\ port' = out.self
    /\ call' = [fn |-> fn, arg |-> arg, before |-> port, inner_calls |-> out.inner_calls]
    /\ UNCHANGED <<cache, manager, callers, result, dirVars, codecVars>>

PortSetOwner ==
    /\ port.kind = "port"
    /\ \E pid \in PidSamples : PortCall("set_owner", pid, set_owner(port, pid))

PortSetOwnerPid ==
    /\ port.kind = "port"
    /\ \E pid \in PidSamples : PortCall("set_owner_pid", pid, set_owner_pid(port, pid))

PortSetActive ==
    /\ port.kind = "port"
    /\ \E active \in BOOLEAN : PortCall("set_active", active, set_active(port, active))

PortDeactivate ==
    /\ port.kind = "port"
    /\ PortCall("deactivate", "none", deactivate(port))

PortCleanup ==
    /\ port.kind = "port"
    /\ PortCall("cleanup", "none", cleanup(port))

PortHandleMessage ==
    /\ port.kind = "port"
    /\ \E inner_result \in {Continue, Terminate} :
        LET out == handle_message(port, inner_result) IN
        /\ port' = out.self
        /\ call' = [fn |-> "handle_message", before |-> port, r |-> out.r,
                    inner_calls |-> out.inner_calls]
    /\ UNCHANGED <<cache, manager, callers, result, dirVars, codecVars>>

\* handle_standard_message(ctx, message); no command word of the messages
\* points into memory, so that no read of to_value is undefined
HandleStandardMessage ==
    /\ \E message \in Messages(table) : \E inner_result \in {Continue, Terminate} :
       \E out \in {handle_standard_message(port, message, inner_result,
                                            [fault |-> TRUE])} :
        /\ port' = out.self
        /\ call' = [fn |-> "handle_standard_message", before |-> port,
                    message |-> message, r |-> out.r,
                    inner_calls |-> out.inner_calls, replies |-> out.replies]
    /\ UNCHANGED <<cache, manager, callers, result, dirVars, codecVars>>

---------------------------------------------------------------------------
(* src/context.rs: ContextManager.  A context is the address the host gave *)
(* for it, 0 for the null pointer.  The host's side of a context is the    *)
(* number of times destroy_port_context has been called on it.             *)

\* the addresses handed to the manager
ContextPtrs == {0, 1, 2}

\* add_context is called at most MaxAdds times on a manager
MaxAdds == 3

\* destroy_port_context(ctx), the host's function
destroy_port_context(ctx, destroyed) == [destroyed EXCEPT ![ctx] = @ + 1]

\* destroy_port_context_safe
destroy_port_context_safe(ctx, destroyed) ==
    IF ctx # 0 THEN destroy_port_context(ctx, destroyed) ELSE destroyed

\* ContextManager::new
ContextManager_new == [contexts |-> <<>>]

\* ContextManager::add_context
add_context(self, ctx) ==
    IF ctx # 0 THEN [contexts |-> Append(self.contexts, ctx)] ELSE self

\* Vec::iter().position(|&x| x == ctx)
position_of(contexts, ctx) ==
    LET hits == {i \in DOMAIN contexts : contexts[i] = ctx} IN
    IF hits = {} THEN None
    ELSE Some(CHOOSE i \in hits : \A j \in hits : i <= j)

\* Vec::remove(pos)
RemoveAt(v, pos) == SubSeq(v, 1, pos - 1) \o SubSeq(v, pos + 1, Len(v))

\* ContextManager::remove_context
remove_context(self, ctx) ==
    LET pos == position_of(self.contexts, ctx) IN
    IF pos.k = "Some" THEN [self |-> [contexts |-> RemoveAt(self.contexts, pos.v)], r |-> TRUE]
    ELSE [self |-> self, r |-> FALSE]

\* ContextManager::count
ContextManager_count(self) == Len(self.contexts)

\* ContextManager::contains
contains(self, ctx) == \E i \in DOMAIN self.contexts : self.contexts[i] = ctx

RECURSIVE DestroyEach(_, _)
\* for &ctx in &self.contexts { destroy_port_context_safe(ctx) }
DestroyEach(contexts, destroyed) ==
    IF contexts = <<>> THEN destroyed
    ELSE DestroyEach(Tail(contexts), destroy_port_context_safe(Head(contexts), destroyed))

\* ContextManager::destroy_all: the manager and the host after the call
destroy_all(self, destroyed) ==
    [self |-> [contexts |-> <<>>], destroyed |-> DestroyEach(self.contexts, destroyed)]

\* let manager = ContextManager::new(); no context has been destroyed
ManagerNew ==
    /\ manager.kind = "none"
    /\ manager' = [kind |-> "manager", self |-> ContextManager_new,
                   destroyed |-> [ctx \in ContextPtrs \ {0} |-> 0], adds |-> 0]
    /\ call' = [fn |-> "new"]
    /\ UNCHANGED <<cache, port, callers, result, dirVars, codecVars>>

\* manager.add_context(ctx)
AddContext ==
    /\ manager.kind = "manager"
    /\ manager.adds < MaxAdds
    /\ \E ctx \in ContextPtrs :
        /\ manager' = [manager EXCEPT !.self = add_context(manager.self, ctx),
                                      !.adds = manager.adds + 1]
        /\ call' = [fn |-> "add_context", ctx |-> ctx, before |-> manager]
    /\ UNCHANGED <<cache, port, callers, result, dirVars, codecVars>>

\* manager.remove_context(ctx)
RemoveContext ==
    /\ manager.kind = "manager"
    /\ \E ctx \in ContextPtrs :
        LET out == remove_context(manager.self, ctx) IN
        /\ manager' = [manager EXCEPT !.self = out.self]
        /\ call' = [fn |-> "remove_context", ctx |-> ctx, r |-> out.r,
                    before |-> manager]
    /\ UNCHANGED <<cache, port, callers, result, dirVars, codecVars>>

\* manager.destroy_all()
DestroyAll ==
    /\ manager.kind = "manager"
    /\ LET out == destroy_all(manager.self, manager.destroyed) IN
        manager' = [manager EXCEPT !.self = out.self, !.destroyed = out.destroyed]
    /\ call' = [fn |-> "destroy_all", before |-> manager]
    /\ UNCHANGED <<cache, port, callers, result, dirVars, codecVars>>

\* drop(manager): <ContextManager as Drop>::drop calls destroy_all
DropManager ==
    /\ manager.kind = "manager"
    /\ LET out == destroy_all(manager.self, manager.destroyed) IN
        manager' = [manager EXCEPT !.kind = "dropped", !.self = out.self,
                                   !.destroyed = out.destroyed]
    /\ call' = [fn |-> "drop", before |-> manager]
    /\ UNCHANGED <<cache, port, callers, result, dirVars, codecVars>>

---------------------------------------------------------------------------
(* Specifications *)

\* no concurrent callers and no call on values
AuxIdle ==
    /\ callers = <<>>
    /\ call = [fn |-> "none"]
    /\ result = NoResult

\* no cache of well-known atoms, no port, no context manager
SysIdle ==
    /\ cache = <<>>
    /\ port = [kind |-> "none"]
    /\ manager = [kind |-> "none"]

\* the atom directory; the codec is idle
Init == DirInit /\ CodecIdle /\ AuxIdle /\ SysIdle

Next ==
    \/ EnsureAtom
    \/ EnsureAtomStr
    \/ FindAtom
    \/ GetAtomString
    \/ GetAtomName
    \/ Count
    \/ Clear

Spec == Init /\ [][Next]_vars

\* the order of the atoms of a directory
NextCompare ==
    \/ EnsureAtom
    \/ CompareAtoms
    \/ Clear
SpecCompare == Init /\ [][NextCompare]_vars

\* callers of ensure_atom_str on one table, their steps interleaved
InitConcurrent ==
    /\ DirInit
    /\ CodecIdle
    /\ CallersInit
    /\ call = [fn |-> "none"]
    /\ result = NoResult
    /\ SysIdle
NextConcurrent ==
    \/ \E c \in Callers : CallerCheck(c)
    \/ \E c \in Callers : CallerBorrowNextId(c)
    \/ \E c \in Callers : CallerReadNextId(c)
    \/ \E c \in Callers : CallerIncrNextId(c)
    \/ \E c \in Callers : CallerInsertAtoms(c)
    \/ \E c \in Callers : CallerInsertReverse(c)
    \/ \E c \in Callers : CallerReturn(c)
SpecConcurrent == InitConcurrent /\ [][NextConcurrent]_vars

\* calls of the functions on values
InitValue ==
    /\ DirInit
    /\ CodecIdle
    /\ callers = <<>>
    /\ call \in FoldCalls \cup MapSetCalls \cup FilterCalls \cup ArithCalls
    /\ result = NoResult
    /\ SysIdle
NextValue ==
    \/ FoldList
    \/ MapSet
    \/ MapGet
    \/ FilterList
    \/ SumList
    \/ DoubleInts
SpecValue == InitValue /\ [][NextValue]_vars

\* the codec; the directory stays as constructed
InitCodec == CodecInit /\ DirInit /\ AuxIdle /\ SysIdle
NextCodec ==
    \/ FromValue
    \/ ToValue
SpecCodec == InitCodec /\ [][NextCodec]_vars

\* atoms built by the smart constructor, next to a directory that fills
NextAtom ==
    \/ EnsureAtomStr
    \/ TermValueAtom
SpecAtom == Init /\ [][NextAtom]_vars

\* records as tagged maps: round trips on one table, and maps built by hand
InitTagged ==
    /\ DirInit
    /\ CodecIdle
    /\ callers = <<>>
    /\ call = [fn |-> "none", trips |-> 0]
    /\ result = NoResult
    /\ SysIdle
NextTagged ==
    \/ ToTaggedMap
    \/ FromTaggedMap
    \/ FromTaggedMapOn
    \/ ExtractRequired
    \/ ExtractOptional
SpecTagged == InitTagged /\ [][NextTagged]_vars

\* callers of the accessors of well-known atoms, their steps interleaved
InitAccessors ==
    /\ DirInit
    /\ CodecIdle
    /\ AccessorsInit
    /\ call = [fn |-> "none"]
    /\ result = NoResult
    /\ port = [kind |-> "none"]
    /\ manager = [kind |-> "none"]
NextAccessors ==
    \/ \E c \in Callers : AccessorLoad(c)
    \/ \E c \in Callers : AccessorEnsure(c)
    \/ \E c \in Callers : AccessorCasStores(c)
    \/ \E c \in Callers : AccessorCasFails(c)
SpecAccessors == InitAccessors /\ [][NextAccessors]_vars

\* a port, its peers and the messages it is sent
InitPort ==
    /\ DirInit
    /\ CodecIdle
    /\ AuxIdle
    /\ SysIdle
NextPort ==
    \/ PortIntern
    \/ PortNew
    \/ PortSetOwner
    \/ PortSetOwnerPid
    \/ PortSetActive
    \/ PortDeactivate
    \/ PortCleanup
    \/ PortHandleMessage
    \/ HandleStandardMessage
SpecPort == InitPort /\ [][NextPort]_vars

\* a context manager and the contexts of its host
NextManager ==
    \/ ManagerNew
    \/ AddContext
    \/ RemoveContext
    \/ DestroyAll
    \/ DropManager
SpecManager == Init /\ [][NextManager]_vars

---------------------------------------------------------------------------
(* Properties of the codec, checked under SpecCodec *)

\* the packed range of a small integer
InPackedRange(i) == -(2^27) <= i /\ i <= 2^27 - 1

RECURSIVE Supported(_)
\* the values the round trip is claimed for
Supported(v) ==
    IF v.tag = "SmallInt" THEN InPackedRange(v.i)
    ELSE IF v.tag \in {"Atom", "Nil", "Binary"} THEN TRUE
    ELSE IF v.tag = "Tuple" THEN \A i \in DOMAIN v.elements : Supported(v.elements[i])
    ELSE IF v.tag = "List" THEN Supported(v.head) /\ Supported(v.tail)
    ELSE IF v.tag = "Map" THEN
        \A i \in DOMAIN v.pairs : Supported(v.pairs[i][1]) /\ Supported(v.pairs[i][2])
    ELSE FALSE

Encoded == src.kind = "value" /\ cpc \in {"have_term", "decoded"}

\* C1: every supported value encodes, and the word it encodes to decodes to
\* the same value.
C1_RoundTrip ==
    (src.kind = "value" /\ Supported(src.v)) =>
        /\ Encoded => term.k = "Ok"
        /\ cpc = "decoded" => decoded = Ok(src.v)

\* C2: the word 0x3B decodes to Nil, and no value other than Nil encodes to
\* 0x3B or comes back from its word as Nil.
C2_NilUnique ==
    /\ (src.kind = "word" /\ src.w = UsizeFromU32(TERM_NIL, wordBits) /\ cpc = "decoded")
            => decoded = Ok(Nil)
    /\ (Encoded /\ src.v # Nil /\ term.k = "Ok") =>
            /\ term.v # UsizeFromU32(TERM_NIL, wordBits)
            /\ cpc = "decoded" => decoded # Ok(Nil)

\* C3: SmallInt(i) encodes exactly when -(2^27) <= i <= 2^27 - 1, and
\* otherwise fails with the out-of-range error and produces no word.
C3_SmallIntRange ==
    (Encoded /\ src.v.tag = "SmallInt") =>
        /\ term.k = "Ok" <=> InPackedRange(src.v.i)
        /\ ~InPackedRange(src.v.i) => term = Err(Other("integer too large for small int"))
        /\ {-(2^27) - 1, -(2^27), 2^27 - 1, 2^27} \subseteq I32Samples

\* C3's case: the integer just below the range has been refused
C3_Witness ==
    /\ Encoded
    /\ src.v = SmallInt(-(2^27) - 1)
    /\ term.k = "Err"

\* C4: the word of an in-range SmallInt(i) has low nibble 0xF and decodes to
\* SmallInt(i), for negative i too, on a 32-bit and on a 64-bit word.
C4_SmallIntRoundTrip ==
    (Encoded /\ src.v.tag = "SmallInt" /\ InPackedRange(src.v.i)) =>
        /\ term.k = "Ok"
        /\ AndConst(term.v, 15) = 15
        /\ Len(term.v) * 16 = wordBits
        /\ cpc = "decoded" => decoded = Ok(SmallInt(src.v.i))

\* C4's case: the most negative small integer came back on a 32-bit word
C4_Witness ==
    /\ wordBits = 32
    /\ src.kind = "value"
    /\ src.v = SmallInt(-(2^27))
    /\ cpc = "decoded"
    /\ decoded = Ok(src.v)

\* a boxed-pointer word with a non-null pointer
IsBoxedNonNull(w) ==
    /\ AndConst(w, TERM_PRIMARY_MASK) = TERM_PRIMARY_BOXED
    /\ ~IsNullPtr(AndNotConst(w, TERM_PRIMARY_MASK))

\* the variant the wire table gives a subtag (0x40 and 0x48 do not fit into
\* the six bits that are compared)
TableVariant(subtag) ==
    IF subtag = 0 THEN "Tuple"
    ELSE IF subtag = 16 THEN "Reference"
    ELSE IF subtag = 24 THEN "Function"
    ELSE IF subtag = 32 THEN "Float"
    ELSE IF subtag \in {40, 48, 56} THEN "Binary"
    ELSE IF subtag = 64 THEN "Map"
    ELSE IF subtag = 72 THEN "Resource"
    ELSE "Invalid"

\* C5: a boxed word decodes to the variant the wire table gives the low six
\* bits of its header, and never to a SmallInt.
C5_BoxedTable ==
    (/\ src.kind = "word"
     /\ IsBoxedNonNull(src.w)
     /\ AndNotConst(src.w, TERM_PRIMARY_MASK) \in DOMAIN heap
     /\ cpc = "decoded") =>
        /\ decoded.k = "Ok"
        /\ decoded.v.tag =
                TableVariant(AndConst(heap[AndNotConst(src.w, TERM_PRIMARY_MASK)],
                                      TERM_BOXED_TAG_MASK))
        /\ decoded.v.tag # "SmallInt"

\* a list-pointer or boxed-pointer word whose pointer is null
IsNullPointerWord(w) ==
    /\ AndConst(w, TERM_PRIMARY_MASK) \in {TERM_PRIMARY_LIST, TERM_PRIMARY_BOXED}
    /\ IsNullPtr(AndNotConst(w, TERM_PRIMARY_MASK))

\* to_value reads the two words of a list cell without looking at the pointer
ReadsThroughNull(w) ==
    /\ AndConst(w, TERM_PRIMARY_MASK) = TERM_PRIMARY_LIST
    /\ IsNullPtr(AndNotConst(w, TERM_PRIMARY_MASK))

\* C6: decoding a null list or boxed pointer reports an error: nothing is
\* read through the pointer and no value is returned.
C6_NullPointerIsError ==
    (src.kind = "word" /\ IsNullPointerWord(src.w) /\ cpc = "decoded") =>
        /\ decoded.k = "Err"
        /\ ~ReadsThroughNull(src.w)

---------------------------------------------------------------------------
(* Properties of the atom directory, checked under Spec *)

EnsureOps == {"ensure_atom", "ensure_atom_str"}

\* C7: as long as the directory is not cleared, ensure gives one name one id
\* and two names two ids.
C7_EnsureStable ==
    \A p \in returned : \A q \in returned : (p[1] = q[1]) <=> (p[2] = q[2])

\* C7's case: ensure has just returned the id of a name it had already
\* created, in a directory of several names
C7_Witness ==
    /\ lastCall.op \in EnsureOps
    /\ lastCall.res.k = "Ok"
    /\ lastCall.arg \in DOMAIN lastCall.pre.atoms
    /\ Cardinality(returned) >= 3

\* C8: once ensure has returned id i for name x, resolving i gives the bytes
\* of x and find(x) gives i, until the directory is cleared.
C8_MappingStable ==
    /\ \A p \in returned :
        /\ get_atom_string(table, p[2]) = Ok(AtomRef(Bytes(p[1]), p[2]))
        /\ get_atom_name(table, p[2]) = Some(p[1])
        /\ find_atom(table, p[1]).r = Ok(p[2])
    /\ \A p \in returned :
        /\ (lastCall.op = "get_atom_string" /\ lastCall.arg = p[2])
                => lastCall.res = Ok(AtomRef(Bytes(p[1]), p[2]))
        /\ (lastCall.op = "get_atom_name" /\ lastCall.arg = p[2])
                => lastCall.res = Some(p[1])
        /\ (lastCall.op = "find_atom" /\ lastCall.arg = p[1])
                => lastCall.res = Ok(p[2])

\* C8's case: the first id issued is resolved after two more names were ensured
C8_Witness ==
    /\ lastCall.op = "get_atom_string"
    /\ lastCall.arg = 1
    /\ lastCall.res.k = "Ok"
    /\ Cardinality(returned) >= 3

C10_LongNameInvalidLength ==
    lastCall.op \in EnsureOps =>
        /\ len(lastCall.arg) > 255 =>
                /\ lastCall.res = Err("InvalidLength")
                /\ table = lastCall.pre
        /\ (len(lastCall.arg) = 255 /\ IsUtf8(Bytes(lastCall.arg))) =>
                /\ lastCall.res.k = "Ok"
                /\ get_atom_name(table, lastCall.res.v) = Some(lastCall.arg)

---------------------------------------------------------------------------
(* Properties of the order of atoms, checked under SpecCompare *)

Sign(n) == IF n < 0 THEN -1 ELSE IF n > 0 THEN 1 ELSE 0

\* C11: for two ids of the directory compare has the sign of the byte order
\* of the two names, is zero exactly for one and the same atom and changes
\* sign when the arguments are swapped; an unknown id is less than a known one.
C11_CompareIsByteOrder ==
    lastCall.op = "compare_atoms" =>
        LET rev == lastCall.pre.reverse_atoms
            idx1 == lastCall.arg[1]
            idx2 == lastCall.arg[2]
            res == lastCall.res IN
        /\ (idx1 \in DOMAIN rev /\ idx2 \in DOMAIN rev) =>
                /\ res < 0 <=> BytesLess(Bytes(rev[idx1]), Bytes(rev[idx2]))
                /\ res > 0 <=> BytesLess(Bytes(rev[idx2]), Bytes(rev[idx1]))
                /\ res = 0 <=> idx1 = idx2
                /\ res = 0 <=> rev[idx1] = rev[idx2]
                /\ Sign(compare_atoms(lastCall.pre, idx2, idx1)) = -Sign(res)
        /\ (idx1 \notin DOMAIN rev /\ idx2 \in DOMAIN rev) => res < 0
        /\ (idx1 \in DOMAIN rev /\ idx2 \notin DOMAIN rev) => res > 0

\* C11's case: an atom created first is compared with a later one whose name
\* is less
C11_Witness ==
    /\ lastCall.op = "compare_atoms"
    /\ lastCall.arg[1] \in DOMAIN lastCall.pre.reverse_atoms
    /\ lastCall.arg[2] \in DOMAIN lastCall.pre.reverse_atoms
    /\ lastCall.arg[1] < lastCall.arg[2]
    /\ lastCall.res > 0

\* the directory of the end-to-end scenario after its first and second call
AfterOk == ensure_atom(new_empty, "ok").t
AfterOkError == ensure_atom(AfterOk, "error").t

\* C12 as stated: on an empty directory ensure_atom("ok") returns 1, then
\* ensure_atom("error") returns 2, and compare(1, 2) is negative.
C12_ScenarioNegative ==
    /\ (lastCall.op = "ensure_atom" /\ lastCall.arg = "ok" /\ lastCall.pre = new_empty)
            => lastCall.res = Ok(1)
    /\ (lastCall.op = "ensure_atom" /\ lastCall.arg = "error" /\ lastCall.pre = AfterOk)
            => lastCall.res = Ok(2)
    /\ (lastCall.op = "compare_atoms" /\ lastCall.arg = <<1, 2>> /\ lastCall.pre = AfterOkError)
            => lastCall.res < 0

\* C12 amended: on an empty directory ensure_atom("ok") returns 1, then
\* ensure_atom("error") returns 2, and compare(1, 2) is positive, "ok" being
\* greater than "error" in byte order.
C12_ScenarioPositive ==
    /\ (lastCall.op = "ensure_atom" /\ lastCall.arg = "ok" /\ lastCall.pre = new_empty)
            => lastCall.res = Ok(1)
    /\ (lastCall.op = "ensure_atom" /\ lastCall.arg = "error" /\ lastCall.pre = AfterOk)
            => lastCall.res = Ok(2)
    /\ (lastCall.op = "compare_atoms" /\ lastCall.arg = <<1, 2>> /\ lastCall.pre = AfterOkError)
            => lastCall.res > 0

\* C12's case: the scenario has run to its last call
C12_Witness ==
    /\ lastCall.op = "compare_atoms"
    /\ lastCall.arg = <<1, 2>>
    /\ lastCall.pre = AfterOkError
    /\ table = AfterOkError

---------------------------------------------------------------------------
(* Properties of concurrent callers, checked under SpecConcurrent *)

AllReturned == \A c \in Callers : callers[c].pc \in {"done", "panicked"}

\* the callers whose name ensure accepts
Accepted == {c \in Callers : len(callers[c].name) <= MaxAtomLen}

---------------------------------------------------------------------------
(* Properties of the functions on values, checked under SpecValue *)

RECURSIVE FoldSeq(_, _, _)
\* the elements es folded from the left
FoldSeq(f, acc, es) ==
    IF es = <<>> THEN acc ELSE FoldSeq(f, ApplyFold(f, acc, Head(es)), Tail(es))

\* C14: fold_list over a chain that ends in a value that is neither Nil nor a
\* cell returns what it returns for the same elements closed by Nil: the
\* elements are folded from left to right, the last tail is not given to f,
\* no error is raised; on a value that is no list it returns init.
C14_FoldImproperTail ==
    (call.fn = "fold_list" /\ result # NoResult) =>
        /\ result.k = "Ok"
        /\ result.v = fold_list(ConsChain(call.elems, Nil), call.init, call.f)
        /\ result.v = FoldSeq(call.f, call.init, call.elems)
        /\ call.f = "push" => result.v = call.init \o call.elems
        /\ call.self.tag \notin {"List", "Nil"} => result.v = call.init

\* C14's case: two elements before a tail that is an integer were folded
C14_Witness ==
    /\ call.fn = "fold_list"
    /\ call.self = List(SmallInt(1), List(SmallInt(2), SmallInt(3)))
    /\ call.f = "sum"
    /\ result = Ok(call.init + 3)

\* C15: map_set returns a new Map: a pair with key k has its value replaced
\* where it stands and every other pair stays, or, k being absent, the pair
\* (k, v) is added at the end; the map it was called on is as before.  A
\* pair with key k is a pair whose key is equal to k, as == has it.
C15_MapSetPersistent ==
    (call.fn = "map_set" /\ result # NoResult) =>
        LET pairs == call.saved.pairs
            new == result.v.pairs
            hits == {i \in DOMAIN pairs : eq(pairs[i][1], call.key)} IN
        /\ result.k = "Ok"
        /\ result.v.tag = "Map"
        /\ hits # {} =>
                /\ Len(new) = Len(pairs)
                /\ \E pos \in hits :
                        /\ new[pos] = <<call.key, call.value>>
                        /\ \A i \in DOMAIN pairs \ {pos} : new[i] = pairs[i]
        /\ hits = {} => new = Append(pairs, <<call.key, call.value>>)
        /\ call.self = call.saved

\* C15's case: the first of two pairs got a new value
C15_Witness ==
    /\ call.fn = "map_set"
    /\ call.saved = Map(<<<<Atom(1), SmallInt(1)>>, <<Atom(2), SmallInt(2)>>>>)
    /\ call.key = Atom(1)
    /\ call.value = SmallInt(2)
    /\ result = Ok(Map(<<<<Atom(1), SmallInt(2)>>, <<Atom(2), SmallInt(2)>>>>))

---------------------------------------------------------------------------
(* Properties of the tagged maps, checked under SpecTagged *)

FirstUnder(name) ==
    IF name \in DOMAIN atoms /\ call.map.tag = "Map" THEN
        LET hits == {i \in DOMAIN call.map.pairs :
                        call.map.pairs[i][1] = Atom(atoms[name])} IN
        IF hits = {} THEN None
        ELSE Some(call.map.pairs[CHOOSE i \in hits : \A j \in hits : i <= j][2])
    ELSE None

\* the map read last holds, under its `type` key, an atom that is not the
\* atom of the type it is read as
TypeDiffers ==
    /\ call.fn = "from_tagged_map_on"
    /\ FirstUnder("type").k = "Some"
    /\ FirstUnder("type").v.tag = "Atom"
    /\ FirstUnder("type").v.idx # atoms[type_name(call.ty)]

\* C17: from_tagged_map of a Map whose `type` key maps to an atom other than
\* the atom of the expected type name returns TypeMismatch with the expected
\* type name and the name the table has for the atom found ("unknown" for an
\* id the table has no name for); it returns no parsed value, whatever the
\* other pairs of the map are.
C17_TypeMismatch ==
    TypeDiffers =>
        LET idx == FirstUnder("type").v.idx IN
        result = Err(TypeMismatch(type_name(call.ty),
                                  IF idx \in DOMAIN reverse_atoms
                                  THEN reverse_atoms[idx] ELSE "unknown"))

\* a map typed `string` whose `value` is an integer was read as an i32, which
\* its `value` alone would have allowed, and TypeMismatch came back
C17_Witness ==
    /\ TypeDiffers
    /\ call.ty = I32Ty
    /\ FirstUnder("value") = Some(SmallInt(1))
    /\ result = Err(TypeMismatch("i32", "string"))

\* the map read last has no pair under the `type` key
NoTypeKey ==
    /\ call.fn = "from_tagged_map_on"
    /\ "type" \in DOMAIN atoms
    /\ FirstUnder("type") = None

\* C18: from_tagged_map of a Map that has no `type` key fails with
\* MissingField, and does so before any field is extracted.
C18_NoTypeIsMissingField ==
    NoTypeKey => result.k = "Err" /\ result.e[1] = "MissingField"

DecodingCalls ==
    {"from_tagged_map", "from_tagged_map_on", "extract_optional_field"}
    \cup RequiredExtractors

\* C26: from_tagged_map (with the validate_type_discriminator it starts
\* with), the four required-field extractors and extract_optional_field
\* leave the atom directory as it was before the call, its count and both
\* of its maps, whether the call succeeds or fails and whether or not the
\* field or type name was an atom before.
C26_DecodingKeepsDirectory ==
    call.fn \in DecodingCalls => table = call.pre

\* C27: extract_optional_field on a value that is no Map fails with
\* WrongType, as the required-field extractors do; None is returned only for
\* a missing key and for the nil atom.
C27_OptionalOnNonMap ==
    /\ (call.fn = "extract_optional_field" /\ call.map.tag # "Map") =>
            result = Err(WrongType("map", "other"))
    /\ (call.fn = "extract_optional_field" /\ result = Ok(None)) =>
            \/ FirstUnder(call.field_name) = None /\ call.map.tag = "Map"
            \/ /\ "nil" \in DOMAIN atoms
               /\ FirstUnder(call.field_name) = Some(Atom(atoms["nil"]))

\* what the required-field extractors do on a value that is no Map
RequiredOnNonMap ==
    (call.fn \in RequiredExtractors /\ call.map.tag # "Map") =>
        result = Err(WrongType("map", "other"))

---------------------------------------------------------------------------
(* Properties of the smart constructor of atoms, checked under SpecAtom *)

\* C20: for every name n and directory d, the Atom that TermValue::atom(n)
\* builds carries the id that d.ensure(n) returns, and d.atom_equals_str of
\* that id and n holds, for names in the constructor's own list and for
\* names outside it.
C20_AtomCarriesEnsuredId ==
    call.fn = "atom" =>
        LET out == ensure_atom_str(table, call.name) IN
        /\ result.v.idx = out.r.v
        /\ atom_equals_str(out.t, result.v.idx, call.name)

---------------------------------------------------------------------------
(* Further properties of the directory, checked under Spec *)

\* C21: in every reachable state of a directory the issued ids are exactly
\* 1..count (0 is never issued), the name-to-id map and the id-to-name map
\* are inverse to each other, and next_id = count + 1; an ensure of a present
\* name leaves count and next_id as they were and returns the stored id, and
\* an ensure of a new name returns count + 1, so that the k-th distinct name
\* ensured on an empty directory receives id k.
C21_DenseIds ==
    /\ DOMAIN reverse_atoms = 1..count(table)
    /\ 0 \notin DOMAIN reverse_atoms
    /\ \A name \in DOMAIN atoms :
        atoms[name] \in DOMAIN reverse_atoms /\ reverse_atoms[atoms[name]] = name
    /\ \A id \in DOMAIN reverse_atoms :
        reverse_atoms[id] \in DOMAIN atoms /\ atoms[reverse_atoms[id]] = id
    /\ next_id = count(table) + 1
    /\ (lastCall.op \in EnsureOps /\ lastCall.res.k = "Ok") =>
        IF lastCall.arg \in DOMAIN lastCall.pre.atoms
        THEN /\ count(table) = count(lastCall.pre)
             /\ next_id = lastCall.pre.next_id
             /\ lastCall.res.v = lastCall.pre.atoms[lastCall.arg]
        ELSE /\ lastCall.res.v = count(lastCall.pre) + 1
             /\ count(table) = count(lastCall.pre) + 1

\* the third distinct name ensured since the directory was last empty has
\* received id 3
C21_Witness ==
    /\ lastCall.op \in EnsureOps
    /\ lastCall.arg \notin DOMAIN lastCall.pre.atoms
    /\ count(lastCall.pre) = 2
    /\ lastCall.res = Ok(3)
    /\ next_id = 4

---------------------------------------------------------------------------
(* Further properties of the functions on values, checked under SpecValue *)

\* C22: filter_list(p) of a chain returns the chain of exactly the elements
\* that satisfy p, in their order, closed by what closed the chain: Nil for a
\* proper list, the tail itself for a tail that is no list (a value that is
\* no list comes back as it is); the list_length of the result is at most
\* that of the chain.
C22_FilterList ==
    (call.fn = "filter_list" /\ result # NoResult) =>
        /\ result.v = ConsChain(SelectSeq(call.elems,
                                          LAMBDA e : ApplyPredicate(call.predicate, e)),
                                call.tail)
        /\ list_length(result.v) <= list_length(call.self)

\* an improper list of an integer, a Nil and an integer, filtered for its
\* integers, has kept both and its tail
C22_Witness ==
    /\ call.fn = "filter_list"
    /\ call.predicate = "is_int"
    /\ call.self = List(SmallInt(1), List(Nil, List(SmallInt(2), SmallInt(3))))
    /\ result = Ok(List(SmallInt(1), List(SmallInt(2), SmallInt(3))))

---------------------------------------------------------------------------
(* Properties of the well-known atoms, checked under SpecAccessors *)

\* C23: under every interleaving of the callers of an accessor of a
\* well-known atom, also when a caller's compare-exchange fails because
\* another caller stored first or fails spuriously, every call that returns
\* Ok returns the index the table gave the name, which is not 0, so that all
\* callers of one accessor receive one index.
C23_AccessorIndex ==
    \A c \in Callers :
        (callers[c].pc = "done" /\ callers[c].res.k = "Ok") =>
            /\ callers[c].res.v # 0
            /\ callers[c].name \in DOMAIN atoms
            /\ callers[c].res.v = atoms[callers[c].name]

---------------------------------------------------------------------------
(* Properties of the port wrapper, checked under SpecPort *)

\* the call is handle_standard_message on a port with a well-formed message
\* whose command word decodes to the atom the table holds for name
CommandIs(name) ==
    /\ call.fn = "handle_standard_message"
    /\ call.before.kind = "port"
    /\ call.message.result # 0
    /\ name \in DOMAIN atoms
    /\ to_value(call.message.command, <<>>, [fault |-> TRUE]) = Ok(Atom(atoms[name]))

\* C24: on a well-formed message whose command is the atom stop the handler
\* deactivates the port and returns Terminate; on the atom start it records
\* the sender as owner, activates the port and returns Continue; in neither
\* case is the port data's own handle_message asked.
C24_StartStop ==
    /\ CommandIs("stop") =>
        /\ call.r = Terminate
        /\ ~port.active
        /\ call.inner_calls = <<"set_active", "cleanup">>
    /\ CommandIs("start") =>
        /\ call.r = Continue
        /\ port.active
        /\ port.owner_pid = call.message.pid
        /\ call.inner_calls = <<"set_owner_pid">>

\* what C29 says of handle_message and of the calls that deactivate
PortGuardsInner ==
    /\ call.fn = "handle_message" =>
        /\ call.inner_calls # <<>> => call.before.active
        /\ ~call.before.active => call.r = Terminate /\ call.inner_calls = <<>>
    /\ call.fn \in {"new", "deactivate", "cleanup"} => ~is_active(port)

\* C29: whatever calls came before, handle_message asks the inner handler
\* only on an active port and answers Terminate without asking it on an
\* inactive one; the port is inactive after new, deactivate and cleanup; and
\* after set_owner(pid) it is active and get_owner_pid() is Some(pid).
C29_PortStates ==
    /\ PortGuardsInner
    /\ call.fn = "set_owner" =>
        /\ is_active(port)
        /\ get_owner_pid(port) = Some(call.arg)

---------------------------------------------------------------------------
(* Properties of the list arithmetic, checked under SpecValue *)

\* the keys of the pairs are pairwise distinct
DistinctKeys(pairs) ==
    \A i, j \in DOMAIN pairs : pairs[i][1] = pairs[j][1] => i = j

\* the key has a pair
HasKey(pairs, key) == \E i \in DOMAIN pairs : pairs[i][1] = key

\* what C28 says of the call that ran last, a map_get after a map_set
MapAlgebra ==
    /\ call.probe = call.key => call.after = Some(call.value)
    /\ call.probe # call.key => call.after = call.before
    /\ Len(result.v.pairs) = Len(call.saved.pairs)
                              + (IF HasKey(call.saved.pairs, call.key) THEN 0 ELSE 1)
    /\ DistinctKeys(call.saved.pairs) => DistinctKeys(result.v.pairs)

\* C28: for every Map m, key k and value v, map_get(k) on map_set(m, k, v)
\* is v, map_get of every other key is what it was on m, the number of
\* pairs grows by one exactly when k had no pair in m, and pairwise distinct
\* keys stay pairwise distinct.
C28_MapGetSet == call.fn = "map_get" => MapAlgebra

\* the same for the keys that are equal to themselves
MapAlgebraWithoutNaN ==
    (/\ call.fn = "map_get"
     /\ call.key # Float(NaN)
     /\ ~HasKey(call.saved.pairs, Float(NaN))) => MapAlgebra

\* an integer n as <<q, r>> with n = q * 2^16 + r and 0 <= r < 2^16, in
\* which the sums of a few i32 are formed exactly
Big(n) == <<n \div LimbBase, n % LimbBase>>

BigAdd(x, y) ==
    LET r == x[2] + y[2] IN <<x[1] + y[1] + (r \div LimbBase), r % LimbBase>>

RECURSIVE MathSum(_)
\* the sum, in the integers, of the integer elements of es
MathSum(es) ==
    IF es = <<>> THEN Big(0)
    ELSE BigAdd(Big(unwrap_or(as_int(Head(es)), 0)), MathSum(Tail(es)))

RECURSIVE IsDoubled(_, _)
\* list is the proper list of es with every integer element doubled in the
\* integers and every other element as it was
IsDoubled(list, es) ==
    IF es = <<>> THEN list = Nil
    ELSE /\ list.tag = "List"
         /\ IF Head(es).tag = "SmallInt"
            THEN /\ list.head.tag = "SmallInt"
                 /\ Big(list.head.i) = BigAdd(Big(Head(es).i), Big(Head(es).i))
            ELSE list.head = Head(es)
         /\ IsDoubled(list.tail, Tail(es))

\* C25: on every list of SmallInt(i32) elements sum_list returns, without a
\* panic and without overflow, the sum of the integer elements (the others
\* count 0), and double_ints returns the list with every integer element
\* doubled and every other element unchanged.
C25_ListArithmetic ==
    /\ (call.fn = "sum_list" /\ result # NoResult) =>
            result.k = "Ok" /\ Big(result.v) = MathSum(call.elems)
    /\ (call.fn = "double_ints" /\ result # NoResult) =>
            result.k = "Ok" /\ IsDoubled(result.v, call.elems)

---------------------------------------------------------------------------
(* Properties of the context manager, checked under SpecManager *)

\* the contexts that v holds
Managed(v) == {v[i] : i \in DOMAIN v}

\* what C30 says of null, and of a manager that was handed no context twice
ManagerWithoutDuplicates ==
    /\ manager.kind # "none" => ~contains(manager.self, 0)
    /\ (/\ call.fn \in {"destroy_all", "drop"}
        /\ \A i, j \in DOMAIN call.before.self.contexts :
              call.before.self.contexts[i] = call.before.self.contexts[j] => i = j) =>
        /\ ContextManager_count(manager.self) = 0
        /\ \A ctx \in ContextPtrs \ {0} :
            manager.destroyed[ctx] =
                call.before.destroyed[ctx]
                + (IF ctx \in Managed(call.before.self.contexts) THEN 1 ELSE 0)

\* C30: whatever add_context and remove_context calls came before,
\* destroy_all (run by drop too) destroys every managed context exactly once
\* and no context twice, and leaves count() = 0; null is never stored; a
\* context taken out with remove_context is no longer contained, and the
\* manager does not destroy it.
C30_DestroyOnce ==
    /\ manager.kind # "none" => ~contains(manager.self, 0)
    /\ call.fn \in {"destroy_all", "drop"} =>
        /\ ContextManager_count(manager.self) = 0
        /\ \A ctx \in ContextPtrs \ {0} :
            manager.destroyed[ctx] =
                call.before.destroyed[ctx]
                + (IF ctx \in Managed(call.before.self.contexts) THEN 1 ELSE 0)
    /\ (call.fn = "remove_context" /\ call.r) => ~contains(manager.self, call.ctx)

====
